---- MODULE Spec2Model ----
(***************************************************************************)
(* LocalMIND backend: the transcript store (table chats), the summary      *)
(* ledger (table session_summaries), the compaction engine                 *)
(* (SessionManager.check_and_compact) and the request handlers that feed   *)
(* them (/chat, /infer_with_prompt).                                       *)
(*                                                                         *)
(* The database state is the COMMITTED content of the two tables.  A row's *)
(* id is its position in the sequence: both tables use                     *)
(* INTEGER PRIMARY KEY AUTOINCREMENT and no code path deletes a row.       *)
(***************************************************************************)
EXTENDS Integers, Sequences, FiniteSets, TLC

\* ---------------------------------------------------------------- constants
ACTIVE_WINDOW_SIZE == 10
CHUNK_SIZE == 5
\* rows the prompt builder reads from chats
HISTORY_LIMIT == 20

\* ------------------------------------------------------------------- bounds
\* rows of table chats
MaxTurns == 17
\* rows of chats that are not part of a user/assistant pair of the default
\* session: rows of another session, and user turns whose request failed
MaxOddTurns == 1
\* size of the backlog a drain run starts from
MaxBacklog == 31
\* calls / requests counted in a drain run
MaxCalls == 12
\* chunks each session's backlog holds at the start of a ledger run
MaxLedgerChapters == 2
\* tokens a model name is made of
MaxNameLen == 2

DefaultSession == "default_session"
OtherSession == "other_session"
Sessions == {DefaultSession, OtherSession}
Roles == {"user", "assistant"}
\* what the summarizer model may answer (after .strip())
SummaryTexts == {"sA", "sB"}
UserMsg == "hi"
Reply == "ok"
Workers == {1, 2}
\* where a check_and_compact call may fail
Faults == {"none", "connect", "summarizer", "insert", "mark", "commit"}

VARIABLES
    chats,              \* table chats, committed rows
    session_summaries,  \* table session_summaries, committed rows
    call,               \* the last completed call and how it ended
    pc,                 \* position of each concurrent check_and_compact execution
    local,              \* its local variables (count, rows_to_compact, summary_content)
    drain,              \* bookkeeping of a run: initial backlog, calls made, failures seen
    users,              \* table users
    model_configs       \* table model_configs

vars == <<chats, session_summaries, call, pc, local, drain, users, model_configs>>

\* ------------------------------------------------------------ pure helpers
Min(a, b) == IF a < b THEN a ELSE b

SetMin(S) == CHOOSE x \in S : \A y \in S : x <= y
SetMax(S) == CHOOSE x \in S : \A y \in S : x >= y

\* variant: the column default is 1
NewTurnDefaultOne(s, role, content, ts) ==
    [session_id |-> s, role |-> role, content |-> content, timestamp |-> ts,
     is_summarized |-> TRUE]

\* a row of chats as INSERT INTO chats (session_id, role, content, model_used)
\* creates it: is_summarized takes its column default 0 and timestamp its
\* default CURRENT_TIMESTAMP, the time ts in whole seconds
NewTurn(s, role, content, ts) ==
    [session_id |-> s, role |-> role, content |-> content, timestamp |-> ts,
     is_summarized |-> FALSE]

\* the second after the one of the newest row
NextSecond(c) == IF c = <<>> THEN 1 ELSE c[Len(c)].timestamp + 1

\* an INSERT made within the second of the newest row (same), or later
InsertTurnAt(c, s, role, content, same) ==
    Append(c, NewTurn(s, role, content,
                      IF same /\ c # <<>> THEN c[Len(c)].timestamp
                      ELSE NextSecond(c)))

\* an INSERT made in a later second than every row there is
InsertTurn(c, s, role, content) == InsertTurnAt(c, s, role, content, FALSE)

\* variant: the WHERE clause has no session_id condition
UnsummarizedAnySession(c, s) == {i \in 1..Len(c) : ~c[i].is_summarized}

\* ids of the rows selected by WHERE session_id = ? AND is_summarized = 0
Unsummarized(c, s) ==
    {i \in 1..Len(c) : c[i].session_id = s /\ ~c[i].is_summarized}

\* SELECT COUNT(*) FROM chats WHERE session_id = ? AND is_summarized = 0
CountUnsummarized(c, s) == Cardinality(Unsummarized(c, s))

\* ORDER BY id ASC
RECURSIVE OrderByIdAsc(_)
OrderByIdAsc(S) ==
    IF S = {} THEN <<>>
    ELSE LET m == SetMin(S) IN <<m>> \o OrderByIdAsc(S \ {m})

\* variant: one row more than asked for
LimitOneMore(seq, n) == SubSeq(seq, 1, Min(Len(seq), n + 1))

\* LIMIT n
Limit(seq, n) == SubSeq(seq, 1, Min(Len(seq), n))

\* variant: the comparison is strict
WithinWindowStrict(count) == count < ACTIVE_WINDOW_SIZE

\* if count <= ACTIVE_WINDOW_SIZE: return
WithinWindow(count) == count <= ACTIVE_WINDOW_SIZE

\* variant: ORDER BY id DESC, the newest rows first
RowsToCompactNewest(c, s) ==
    LET asc == OrderByIdAsc(Unsummarized(c, s))
        ids == Limit([k \in 1..Len(asc) |-> asc[Len(asc) + 1 - k]], CHUNK_SIZE)
    IN  [k \in 1..Len(ids) |->
            [id |-> ids[k], role |-> c[ids[k]].role, content |-> c[ids[k]].content]]

\* SELECT id, role, content ... ORDER BY id ASC LIMIT CHUNK_SIZE
RowsToCompact(c, s) ==
    LET ids == Limit(OrderByIdAsc(Unsummarized(c, s)), CHUNK_SIZE)
    IN  [k \in 1..Len(ids) |->
            [id |-> ids[k], role |-> c[ids[k]].role, content |-> c[ids[k]].content]]

\* variant: the prompt renderer's label for the other roles
RoleLabelAssistant(role) == IF role = "user" THEN "User" ELSE "Assistant"

\* role_label = "User" if row['role'] == 'user' else "AI"
RoleLabel(role) == IF role = "user" THEN "User" ELSE "AI"

\* text_block: one line "<label>: <content>" per row, in row order
TextBlock(rows) ==
    [k \in 1..Len(rows) |-> <<RoleLabel(rows[k].role), ": ", rows[k].content>>]

\* variant: end_chat_id is taken from the first row
InsertChapterEndIsStart(summ, s, content, rows) ==
    Append(summ, [session_id |-> s, content |-> content,
                  start_chat_id |-> rows[1].id,
                  end_chat_id |-> rows[1].id])

\* variant: INSERT OR REPLACE keyed by session: the session's newest chapter
\* is overwritten
InsertChapterReplace(summ, s, content, rows) ==
    LET new == [session_id |-> s, content |-> content,
                start_chat_id |-> rows[1].id,
                end_chat_id |-> rows[Len(rows)].id]
    IN  IF summ # <<>> /\ summ[Len(summ)].session_id = s
        THEN [summ EXCEPT ![Len(summ)] = new]
        ELSE Append(summ, new)

\* INSERT INTO session_summaries (session_id, content, start_chat_id, end_chat_id)
InsertChapter(summ, s, content, rows) ==
    Append(summ, [session_id |-> s, content |-> content,
                  start_chat_id |-> rows[1].id,
                  end_chat_id |-> rows[Len(rows)].id])

\* variant: WHERE id = <the first id> instead of WHERE id IN (ids)
MarkSummarizedFirstOnly(c, ids) ==
    [i \in 1..Len(c) |->
        IF ids # {} /\ i = SetMin(ids) THEN [c[i] EXCEPT !.is_summarized = TRUE] ELSE c[i]]

\* UPDATE chats SET is_summarized = 1 WHERE id IN (ids)
MarkSummarized(c, ids) ==
    [i \in 1..Len(c) |->
        IF i \in ids THEN [c[i] EXCEPT !.is_summarized = TRUE] ELSE c[i]]

RowIds(rows) == {rows[k].id : k \in 1..Len(rows)}

\* variant: the writes made before the failure stay
RollbackKeepsWrites(committed, tx) == tx

\* conn.rollback(): the uncommitted writes of the connection are discarded
Rollback(committed, tx) == committed

\* variant: the write is skipped when a selected row is already summarized
WriteBackGuarded(db, s, rows, text, fault) ==
    IF fault # "none" \/ \E i \in RowIds(rows) : db.chats[i].is_summarized
    THEN db
    ELSE [chats |-> MarkSummarized(db.chats, RowIds(rows)),
          summaries |-> InsertChapter(db.summaries, s, text, rows)]

\* Lines 102-123: insert the chapter, mark the rows, commit; any failure
\* lands in the except branch, which rolls the connection back.
WriteBack(db, s, rows, text, fault) ==
    LET tx1 == [chats |-> db.chats,
                summaries |-> InsertChapter(db.summaries, s, text, rows)]
        tx2 == [chats |-> MarkSummarized(tx1.chats, RowIds(rows)),
                summaries |-> tx1.summaries]
    IN  CASE fault = "insert" -> Rollback(db, db)
          [] fault = "mark"   -> Rollback(db, tx1)
          [] fault = "commit" -> Rollback(db, tx2)
          [] OTHER            -> tx2

\* variant: the summarizer call sits outside the try block as well
CaughtOnlyWrites(fault) == fault \notin {"connect", "summarizer"}

\* get_db_connection() is called before the try block; everything after it
\* is inside try/except Exception
CaughtInside(fault) == fault # "connect"

\* One whole check_and_compact(session_id) call on database db.
\* fault: where (if anywhere) the call fails; text: the summarizer's answer.
\* Result: the database afterwards, the fault that took effect, whether the
\* summarizer was invoked (and the text block sent to it), whether the call
\* raised to its caller.
CheckAndCompactCall(db, s, fault, text) ==
    LET count == CountUnsummarized(db.chats, s)
        rows  == RowsToCompact(db.chats, s)
        same(f, called) ==
            [db |-> db, fault |-> f, summarizer_called |-> called,
             text_block |-> IF called THEN TextBlock(rows) ELSE <<>>,
             raised |-> ~CaughtInside(f), committed |-> FALSE]
    IN  IF fault = "connect" THEN same("connect", FALSE)
        ELSE IF WithinWindow(count) THEN same("none", FALSE)
        ELSE IF rows = <<>> THEN same("none", FALSE)
        ELSE IF fault = "summarizer" THEN same("summarizer", TRUE)
        ELSE [db |-> WriteBack(db, s, rows, text, fault),
              fault |-> fault, summarizer_called |-> TRUE,
              text_block |-> TextBlock(rows),
              raised |-> ~CaughtInside(fault), committed |-> fault = "none"]

\* variant: the query has no WHERE session_id condition
ChapterLinesAnySession(summ, s) ==
    [k \in 1..Len(summ) |-> <<"- ", summ[k].content>>]

\* "SELECT content FROM session_summaries WHERE session_id = ? ORDER BY id ASC"
\* then "\n".join("- " + content): the sequence of the joined lines,
\* <<>> standing for the empty string returned when there are no rows
RECURSIVE ChapterLines(_, _)
ChapterLines(summ, s) ==
    IF summ = <<>> THEN <<>>
    ELSE LET rest == ChapterLines(SubSeq(summ, 1, Len(summ) - 1), s)
             last == summ[Len(summ)]
         IN  IF last.session_id = s
             THEN Append(rest, <<"- ", last.content>>)
             ELSE rest

GetSessionSummaryResult(summ, s) == ChapterLines(summ, s)

DB == [chats |-> chats, summaries |-> session_summaries]

NoCall ==
    [op |-> "none", session |-> DefaultSession, status |-> "ok", fault |-> "none",
     summarizer_called |-> FALSE, raised |-> FALSE, committed |-> FALSE,
     sidecar |-> "none", events |-> <<>>, args |-> <<>>, result |-> <<>>]

OtherTurns(c) == Cardinality({i \in 1..Len(c) : c[i].session_id # DefaultSession})

\* user turns of the default session that no assistant turn follows
LoneUsers(c) ==
    LET d == SelectSeq(c, LAMBDA t : t.session_id = DefaultSession)
    IN  Cardinality({i \in 1..Len(d) :
            d[i].role = "user" /\ (i = Len(d) \/ d[i + 1].role = "user")})

OddTurns(c) == OtherTurns(c) + LoneUsers(c)

IdleWorkers == [w \in Workers |-> "idle"]

\* SQL NULL, Python None
Null == "<NULL>"

\* json.dumps of the default preferences, as init_db stores it
DefaultPrefsText ==
    "{\"style\": \"structural\", \"detail_level\": \"high\", \"show_prompt_inspector\": true}"

\* init_db seeds one user when the table is empty
SeededUsers ==
    {[user_id |-> "demo_user", display_name |-> "Jacob",
      workspace |-> "LocalMIND Lab", preferences |-> DefaultPrefsText]}

NoLocals == [w \in Workers |-> [count |-> 0, rows |-> <<>>, summary |-> ""]]
NoDrain == [backlog |-> 0, calls |-> 0]

\* --------------------------------------------------------------- initial state
\* init_db() creates both tables empty
Init ==
    /\ chats = <<>>
    /\ session_summaries = <<>>
    /\ call = NoCall
    /\ pc = IdleWorkers
    /\ local = NoLocals
    /\ users = SeededUsers
    /\ model_configs = {}
    /\ drain = NoDrain

\* ------------------------------------------------- calls executed one at a time
\* A row written for a session other than the one the server's handlers use:
\* the store is keyed by session_id and all sessions share the id sequence.
AppendOtherTurn(role) ==
    /\ chats' = InsertTurn(chats, OtherSession, role, UserMsg)
    /\ call' = [NoCall EXCEPT !.op = "append", !.session = OtherSession]
    /\ UNCHANGED <<session_summaries, pc, local>>

\* SessionManager.check_and_compact(session_id) called directly
CheckAndCompact(s, fault, text) ==
    LET r == CheckAndCompactCall(DB, s, fault, text)
    IN  /\ chats' = r.db.chats
        /\ session_summaries' = r.db.summaries
        /\ call' = [NoCall EXCEPT !.op = "check_and_compact", !.session = s,
                        !.status = IF r.raised THEN "raised" ELSE "ok",
                        !.fault = r.fault,
                        !.summarizer_called = r.summarizer_called,
                        !.raised = r.raised, !.committed = r.committed]
        /\ UNCHANGED <<pc, local>>

\* SessionManager.get_session_summary(session_id).  ok: the query succeeds;
\* a database error is caught and the empty string returned
GetSessionSummary(s, ok) ==
    /\ call' = [NoCall EXCEPT !.op = "get_session_summary", !.session = s,
                    !.status = IF ok THEN "ok" ELSE "error",
                    !.result = IF ok
                               THEN GetSessionSummaryResult(session_summaries, s)
                               ELSE <<>>]
    /\ UNCHANGED <<chats, session_summaries, pc, local>>

\* variant: the compaction check is made right after the user turn is saved
ChatStepsCompactFirst ==
    <<"append_user", "compaction_check", "retrieve_context", "prepare_prompt",
      "infer", "append_assistant", "sidecar", "return">>

\* the steps of chat_endpoint in program order
ChatSteps ==
    <<"append_user", "retrieve_context", "prepare_prompt", "infer",
      "append_assistant", "sidecar", "compaction_check", "return">>

\* variant: the user turn is saved only once the model has answered
InferWithPromptStepsInferFirst ==
    <<"infer", "append_user", "append_assistant", "sidecar", "return">>

\* the steps of infer_with_prompt_endpoint in program order
InferWithPromptSteps ==
    <<"append_user", "infer", "append_assistant", "sidecar", "return">>

StepsOf(op) == IF op = "chat" THEN ChatSteps ELSE InferWithPromptSteps

\* the outer "except Exception" of both handlers: the steps before the failed
\* one, then HTTP 500.  A failure of the embedding or the retrieval ends the
\* request like a failure of the main model and is counted as one.
FailedTrace(done) == done \o <<"infer_failed", "http_500">>

\* the steps of a whole request
TraceOf(op, inferOK) ==
    LET steps == StepsOf(op)
        i == CHOOSE k \in 1..Len(steps) : steps[k] = "infer"
    IN  IF inferOK THEN steps ELSE FailedTrace(SubSeq(steps, 1, i - 1))

\* variant: an exception of the sidecar call reaches the outer handler
AfterSidecarPropagates(ok) == IF ok THEN "running" ELSE "500"

\* the sidecar's own try/except: the request goes on whether the call failed
AfterSidecar(ok) == "running"

\* variant: an exception of check_and_compact reaches the outer handler
AfterTriggerPropagates(raised) == IF raised THEN "500" ELSE "running"

\* try: check_and_compact(...) except Exception: the request goes on whether
\* the call raised
AfterTrigger(raised) == "running"

SidecarOutcome(ok) == IF ok THEN "ok" ELSE "failed"

\* POST /chat.  inferOK: the main pipeline (embedding, retrieval, main model)
\* succeeds; sidecarOK: the sidecar summary call succeeds; fault, text: as in
\* CheckAndCompactCall.
ChatEndpoint(inferOK, sidecarOK, fault, text) ==
    LET c1 == InsertTurn(chats, DefaultSession, "user", UserMsg)
        c2 == InsertTurn(c1, DefaultSession, "assistant", Reply)
        r  == CheckAndCompactCall([chats |-> c2, summaries |-> session_summaries],
                                  DefaultSession, fault, text)
    IN  IF ~inferOK
        THEN /\ chats' = c1
             /\ call' = [NoCall EXCEPT !.op = "chat", !.status = "500",
                             !.events = TraceOf("chat", FALSE)]
             /\ UNCHANGED <<session_summaries, pc, local>>
        ELSE /\ chats' = r.db.chats
             /\ session_summaries' = r.db.summaries
             /\ call' = [NoCall EXCEPT !.op = "chat",
                             !.status = IF /\ AfterSidecar(sidecarOK) = "running"
                                           /\ AfterTrigger(r.raised) = "running"
                                        THEN "200" ELSE "500",
                             !.fault = r.fault,
                             !.summarizer_called = r.summarizer_called,
                             !.raised = r.raised, !.committed = r.committed,
                             !.sidecar = SidecarOutcome(sidecarOK),
                             !.events = TraceOf("chat", TRUE)]
             /\ UNCHANGED <<pc, local>>

\* POST /infer_with_prompt: the same two appends, no compaction check
InferWithPromptEndpoint(inferOK, sidecarOK) ==
    LET c1 == InsertTurn(chats, DefaultSession, "user", UserMsg)
        c2 == InsertTurn(c1, DefaultSession, "assistant", Reply)
    IN  /\ chats' = IF inferOK THEN c2 ELSE c1
        /\ call' = [NoCall EXCEPT !.op = "infer_with_prompt",
                        !.status = IF inferOK /\ AfterSidecar(sidecarOK) = "running"
                                   THEN "200" ELSE "500",
                        !.sidecar = IF inferOK THEN SidecarOutcome(sidecarOK)
                                    ELSE "none",
                        !.events = TraceOf("infer_with_prompt", inferOK)]
        /\ UNCHANGED <<session_summaries, pc, local>>

\* the summarizer's answer matters only to a call that writes it
Answers(fault) == IF fault = "none" THEN SummaryTexts ELSE {"sA"}

\* room for n more rows, of which odd are not part of a pair
Room(n, odd) ==
    /\ Len(chats) + n <= MaxTurns
    /\ OddTurns(chats) + odd <= MaxOddTurns

DoAppendOtherTurn == Room(1, 1) /\ AppendOtherTurn("user") /\ UNCHANGED <<drain, users, model_configs>>
DoCheckAndCompact ==
    \E s \in Sessions, fault \in Faults : \E text \in Answers(fault) :
        CheckAndCompact(s, fault, text) /\ UNCHANGED <<drain, users, model_configs>>
DoGetSessionSummary ==
    \E s \in Sessions, ok \in BOOLEAN : GetSessionSummary(s, ok) /\ UNCHANGED <<drain, users, model_configs>>
DoChat ==
    /\ Room(2, 0)
    /\ \E fault \in Faults : \E text \in Answers(fault) :
            ChatEndpoint(TRUE, TRUE, fault, text) /\ UNCHANGED <<drain, users, model_configs>>
DoChatFails ==
    Room(1, 1) /\ ChatEndpoint(FALSE, TRUE, "none", "sA") /\ UNCHANGED <<drain, users, model_configs>>
DoInferWithPrompt ==
    Room(2, 0) /\ InferWithPromptEndpoint(TRUE, TRUE) /\ UNCHANGED <<drain, users, model_configs>>
DoInferWithPromptFails ==
    Room(1, 1) /\ InferWithPromptEndpoint(FALSE, TRUE) /\ UNCHANGED <<drain, users, model_configs>>

Next ==
    \/ DoAppendOtherTurn
    \/ DoCheckAndCompact
    \/ DoGetSessionSummary
    \/ DoChat
    \/ DoChatFails
    \/ DoInferWithPrompt
    \/ DoInferWithPromptFails

Spec == Init /\ [][Next]_vars

\* ------------------------------------- check_and_compact executions interleaved
\* Two executions of check_and_compact("default_session"), each on its own
\* connection (get_db_connection opens a new one per call).  The two SELECTs
\* run outside any transaction and see the committed rows; the INSERT, the
\* UPDATE and the COMMIT run inside one write transaction, which SQLite
\* serializes against other writers, so the write-back is one step.

\* a request appends its user/assistant pair
ConcAppendPair ==
    /\ Len(chats) + 2 <= MaxTurns
    /\ chats' = InsertTurn(InsertTurn(chats, DefaultSession, "user", UserMsg),
                           DefaultSession, "assistant", Reply)
    /\ UNCHANGED <<session_summaries, call, pc, local, drain, users, model_configs>>

\* lines 54-63: connect, count, return when within the window
ConcCount(w) ==
    /\ pc[w] = "idle"
    /\ LET count == CountUnsummarized(chats, DefaultSession)
       IN  /\ local' = [local EXCEPT ![w] = [count |-> count, rows |-> <<>>, summary |-> ""]]
           /\ pc' = [pc EXCEPT ![w] = IF WithinWindow(count) THEN "idle" ELSE "select"]
    /\ UNCHANGED <<chats, session_summaries, call, drain, users, model_configs>>

\* lines 65-73: select the oldest unsummarized rows
ConcSelect(w) ==
    /\ pc[w] = "select"
    /\ LET rows == RowsToCompact(chats, DefaultSession)
       IN  /\ local' = [local EXCEPT ![w].rows = rows]
           /\ pc' = [pc EXCEPT ![w] = IF rows = <<>> THEN "idle" ELSE "summarize"]
    /\ UNCHANGED <<chats, session_summaries, call, drain, users, model_configs>>

\* lines 75-100: format the chunk and ask the summarizer
ConcSummarize(w, ok, text) ==
    /\ pc[w] = "summarize"
    /\ local' = [local EXCEPT ![w].summary = IF ok THEN text ELSE ""]
    /\ pc' = [pc EXCEPT ![w] = IF ok THEN "write" ELSE "idle"]
    /\ UNCHANGED <<chats, session_summaries, call, drain, users, model_configs>>

\* lines 102-125: insert, mark, commit (or roll back), close
ConcWrite(w, fault) ==
    /\ pc[w] = "write"
    /\ LET db == WriteBack(DB, DefaultSession, local[w].rows, local[w].summary, fault)
       IN  /\ chats' = db.chats
           /\ session_summaries' = db.summaries
    /\ call' = [NoCall EXCEPT !.op = "check_and_compact", !.fault = fault,
                    !.summarizer_called = TRUE, !.committed = (fault = "none")]
    /\ pc' = [pc EXCEPT ![w] = "idle"]
    /\ UNCHANGED <<local, drain, users, model_configs>>

DoConcCount == \E w \in Workers : ConcCount(w)
DoConcSelect == \E w \in Workers : ConcSelect(w)
DoConcSummarize ==
    \E w \in Workers, ok \in BOOLEAN, text \in SummaryTexts : ConcSummarize(w, ok, text)
DoConcWrite ==
    \E w \in Workers, fault \in {"none", "insert", "mark", "commit"} : ConcWrite(w, fault)

NextConc ==
    \/ ConcAppendPair
    \/ DoConcCount
    \/ DoConcSelect
    \/ DoConcSummarize
    \/ DoConcWrite

SpecConc == Init /\ [][NextConc]_vars

\* ------------------------------------------------------- draining a backlog
\* A backlog of b unsummarized turns of the default session and no chapter:
\* what b/2 /infer_with_prompt requests leave behind (that handler appends and
\* never compacts), an odd b ending with the user turn of a failed request.
Backlog(b) ==
    [i \in 1..b |->
        NewTurn(DefaultSession,
                IF i % 2 = 1 THEN "user" ELSE "assistant",
                IF i % 2 = 1 THEN UserMsg ELSE Reply, i)]

InitBacklog ==
    /\ \E b \in 0..MaxBacklog :
          /\ chats = Backlog(b)
          /\ drain = [backlog |-> b, calls |-> 0]
    /\ session_summaries = <<>>
    /\ call = NoCall
    /\ pc = IdleWorkers
    /\ local = NoLocals
    /\ users = SeededUsers
    /\ model_configs = {}

\* a successful check_and_compact call on the static backlog
StaticCall ==
    /\ drain.calls < MaxCalls
    /\ CheckAndCompact(DefaultSession, "none", "sA")
    /\ drain' = [drain EXCEPT !.calls = @ + 1]
    /\ UNCHANGED <<users, model_configs>>

SpecStatic == InitBacklog /\ [][StaticCall]_vars

\* a /chat request in which the inference and the compaction succeed
DrainTurn ==
    /\ drain.calls < MaxCalls
    /\ ChatEndpoint(TRUE, TRUE, "none", "sA")
    /\ drain' = [drain EXCEPT !.calls = @ + 1]
    /\ UNCHANGED <<users, model_configs>>

SpecDrain == InitBacklog /\ [][DrainTurn]_vars

\* ------------------------------------------------------------------ properties
\* ids of the rows of session s
SessionIds(c, s) == {i \in 1..Len(c) : c[i].session_id = s}

\* the chapters of session s in ascending chapter-id order
ChaptersOf(summ, s) == SelectSeq(summ, LAMBDA ch : ch.session_id = s)

\* the turn ids of session s inside chapter ch's range
Covered(c, s, ch) ==
    {i \in SessionIds(c, s) : ch.start_chat_id <= i /\ i <= ch.end_chat_id}

\* the n smallest members of S
Oldest(S, n) == {i \in S : Cardinality({j \in S : j < i}) < n}

IsCompactCall(c) == c.op = "check_and_compact"

PartitionOK(c, summ, s) ==
    LET chs == ChaptersOf(summ, s)
        T   == SessionIds(c, s)
        cov(k) == Covered(c, s, chs[k])
        all == UNION {cov(k) : k \in 1..Len(chs)}
    IN  /\ \A k \in 1..Len(chs) :
            /\ chs[k].start_chat_id \in T
            /\ chs[k].end_chat_id \in T
            /\ chs[k].start_chat_id <= chs[k].end_chat_id
            \* gap-free prefix: what precedes chapter k is what chapters 1..k-1 cover
            /\ {i \in T : i < chs[k].start_chat_id} = UNION {cov(j) : j \in 1..(k - 1)}
        /\ \A j, k \in 1..Len(chs) : j # k => cov(j) \cap cov(k) = {}
        \* the unsummarized turns are the rest, and they are a suffix
        /\ Unsummarized(c, s) = T \ all
        /\ \A i \in all, j \in T \ all : i < j

\* C1: in every state reached by appends and check_and_compact calls executed
\* one at a time, the chapter ranges of each session, in chapter-id order, are
\* contiguous, non-overlapping and gap-free over a prefix of the session's turn
\* ids, and the unsummarized turns are exactly the remaining suffix.
C1_PartitionInvariant == \A s \in Sessions : PartitionOK(chats, session_summaries, s)

\* two chapters of the default session, the first one spanning a row of the
\* other session, and turns left in the active window
C1_Witness ==
    LET chs == ChaptersOf(session_summaries, DefaultSession)
    IN  /\ Len(chs) >= 2
        /\ \E i \in SessionIds(chats, OtherSession) :
                chs[1].start_chat_id < i /\ i < chs[1].end_chat_id
        /\ Unsummarized(chats, DefaultSession) # {}

\* C2: a check_and_compact call on a session with more than ACTIVE_WINDOW_SIZE
\* unsummarized turns in which the summarizer and the writes succeed marks
\* exactly the CHUNK_SIZE unsummarized turns with the smallest ids, adds exactly
\* one chapter, and that chapter's range is [min id, max id] of those turns.
C2_ExactlyOneChunk ==
    [][\A s \in Sessions :
        (/\ IsCompactCall(call') /\ call'.session = s /\ call'.fault = "none"
         /\ CountUnsummarized(chats, s) > ACTIVE_WINDOW_SIZE)
        => LET chunk == Oldest(Unsummarized(chats, s), CHUNK_SIZE)
               n == Len(session_summaries)
           IN  /\ Cardinality(chunk) = CHUNK_SIZE
               /\ Len(chats') = Len(chats)
               /\ \A i \in 1..Len(chats) :
                    /\ chats'[i].is_summarized = (chats[i].is_summarized \/ i \in chunk)
                    /\ chats'[i].session_id = chats[i].session_id
               /\ Len(session_summaries') = n + 1
               /\ SubSeq(session_summaries', 1, n) = session_summaries
               /\ session_summaries'[n + 1].session_id = s
               /\ session_summaries'[n + 1].start_chat_id = SetMin(chunk)
               /\ session_summaries'[n + 1].end_chat_id = SetMax(chunk)
      ]_vars

\* a committed direct call whose chunk is interleaved with a row of the other
\* session (the range is wider than CHUNK_SIZE ids)
C2_Witness ==
    /\ IsCompactCall(call) /\ call.committed /\ call.session = DefaultSession
    /\ LET last == session_summaries[Len(session_summaries)]
       IN  last.end_chat_id - last.start_chat_id + 1 > CHUNK_SIZE

\* C3: a check_and_compact call on a session with at most ACTIVE_WINDOW_SIZE
\* unsummarized turns creates no chapter, marks no turn and does not invoke the
\* summarizer; transcript and ledger are unchanged.
C3_NoPrematureCompaction ==
    [][\A s \in Sessions :
        (/\ IsCompactCall(call') /\ call'.session = s
         /\ CountUnsummarized(chats, s) <= ACTIVE_WINDOW_SIZE)
        => /\ chats' = chats
           /\ session_summaries' = session_summaries
           /\ ~call'.summarizer_called
      ]_vars

\* a call made with exactly ACTIVE_WINDOW_SIZE unsummarized turns
C3_Witness ==
    /\ IsCompactCall(call) /\ ~call.committed /\ ~call.raised
    /\ CountUnsummarized(chats, call.session) = ACTIVE_WINDOW_SIZE

ChapterAndMarksAgree(c, summ) ==
    /\ \A k \in 1..Len(summ) :
          \A i \in Covered(c, summ[k].session_id, summ[k]) : c[i].is_summarized
    /\ \A i \in 1..Len(c) :
          c[i].is_summarized =>
              \E k \in 1..Len(summ) : i \in Covered(c, c[i].session_id, summ[k])

\* C4: the chapter insert and the marking of the chunk take effect together or
\* not at all: a call in which the insert succeeded and the marking or the
\* commit failed leaves neither the chapter nor a marked turn, and no state has
\* a chapter without its marked turns or a marked turn without its chapter.
C4_AtomicCommit ==
    /\ []ChapterAndMarksAgree(chats, session_summaries)
    /\ [][(IsCompactCall(call') /\ call'.fault \in {"mark", "commit"})
            => (chats' = chats /\ session_summaries' = session_summaries)]_vars

\* a call that failed at the marking, after its insert
C4_Witness ==
    /\ IsCompactCall(call) /\ call.fault = "mark"
    /\ CountUnsummarized(chats, call.session) > ACTIVE_WINDOW_SIZE
    /\ \E k \in 1..Len(session_summaries) :
            session_summaries[k].session_id = call.session

\* C5: when the inference call inside check_and_compact fails, no chapter is
\* created, no turn is marked, the unsummarized count is unchanged and the call
\* returns normally.
C5_SummarizerFailureContained ==
    [][(IsCompactCall(call') /\ call'.fault = "summarizer")
        => /\ call'.summarizer_called
           /\ session_summaries' = session_summaries
           /\ chats' = chats
           /\ \A s \in Sessions :
                CountUnsummarized(chats', s) = CountUnsummarized(chats, s)
           /\ ~call'.raised
      ]_vars

C5_Witness ==
    /\ IsCompactCall(call) /\ call.fault = "summarizer" /\ ~call.raised
    /\ CountUnsummarized(chats, call.session) > ACTIVE_WINDOW_SIZE

\* C9: a turn is created with is_summarized false, the flag changes only in a
\* step that commits a chapter covering the turn, and once true it stays true.
C9_SummarizedMonotonic ==
    [][/\ Len(chats') >= Len(chats)
       /\ \A i \in (Len(chats) + 1)..Len(chats') : ~chats'[i].is_summarized
       /\ \A i \in 1..Len(chats) :
            /\ chats[i].is_summarized => chats'[i].is_summarized
            /\ (~chats[i].is_summarized /\ chats'[i].is_summarized)
                => /\ call'.committed
                   /\ call'.op \in {"check_and_compact", "chat"}
                   /\ Len(session_summaries') = Len(session_summaries) + 1
                   /\ i \in Covered(chats', chats[i].session_id,
                                    session_summaries'[Len(session_summaries')])
                   /\ session_summaries'[Len(session_summaries')].session_id
                        = chats[i].session_id
      ]_vars

\* summarized turns are still summarized after a later request appended turns
C9_Witness ==
    /\ call.op = "infer_with_prompt"
    /\ \E i \in 1..Len(chats) : chats[i].is_summarized
    /\ \E i \in 1..Len(chats) : ~chats[i].is_summarized

\* C10: a chapter row is created only by a committing check_and_compact, and no
\* operation changes, deletes or merges an existing chapter.
C10_ChaptersImmutable ==
    [][/\ Len(session_summaries') >= Len(session_summaries)
       /\ SubSeq(session_summaries', 1, Len(session_summaries)) = session_summaries
       /\ Len(session_summaries') > Len(session_summaries)
            => /\ Len(session_summaries') = Len(session_summaries) + 1
               /\ call'.committed
               /\ call'.op \in {"check_and_compact", "chat"}
      ]_vars

\* a second compaction committed after the first chapter; the first is intact
C10_Witness ==
    /\ Len(session_summaries) >= 2
    /\ call.committed
    /\ session_summaries[1].start_chat_id = 1

\* two chapters of one session whose turn-id ranges share an id
Overlap(a, b) ==
    /\ a.session_id = b.session_id
    /\ a.start_chat_id <= b.end_chat_id
    /\ b.start_chat_id <= a.end_chat_id

OverlappingChapters(summ) ==
    \E j, k \in 1..Len(summ) : j # k /\ Overlap(summ[j], summ[k])

\* C6: nothing between the select and the commit stops a stale selection: when
\* an execution commits a chunk of which a row was summarized by the other
\* execution in the meantime, its chapter is written all the same and its range
\* overlaps the range of an existing chapter of the session.
C6_StaleCommitOverlaps ==
    [][\A w \in Workers :
        (/\ pc[w] = "write" /\ pc'[w] = "idle" /\ call'.committed
         /\ \E i \in RowIds(local[w].rows) : chats[i].is_summarized)
        => /\ Len(session_summaries') = Len(session_summaries) + 1
           /\ \E k \in 1..Len(session_summaries) :
                Overlap(session_summaries[k],
                        session_summaries'[Len(session_summaries')])
      ]_vars

\* both executions saw the same count and selected the same rows, both have
\* committed, and the ledger holds two chapters with overlapping ranges
C6_Witness ==
    /\ pc = IdleWorkers
    /\ local[1].count = local[2].count
    /\ local[1].rows = local[2].rows /\ local[1].rows # <<>>
    /\ call.committed
    /\ OverlappingChapters(session_summaries)
    /\ ~PartitionOK(chats, session_summaries, DefaultSession)

CeilDiv(a, b) == (a + b - 1) \div b

\* compactions a static backlog of b turns takes to come within the window
CallsNeeded(b) ==
    IF b <= ACTIVE_WINDOW_SIZE THEN 0 ELSE CeilDiv(b - ACTIVE_WINDOW_SIZE, CHUNK_SIZE)

\* C7: on a static backlog of B turns, each successful call lowers the
\* unsummarized count by exactly CHUNK_SIZE while the count exceeds
\* ACTIVE_WINDOW_SIZE (chapter j covering ids CHUNK_SIZE*(j-1)+1..CHUNK_SIZE*j),
\* and every later call is a no-op; with 13 turns the first call creates
\* chapter 1 with range 1-5, turns 6..13 stay unsummarized, and the second
\* call changes nothing.
C7_DrainConvergence ==
    LET b == drain.backlog
        done == Min(drain.calls, CallsNeeded(b))
    IN  /\ Len(chats) = b
        /\ Unsummarized(chats, DefaultSession) = (CHUNK_SIZE * done + 1)..b
        /\ CountUnsummarized(chats, DefaultSession) = b - CHUNK_SIZE * done
        /\ Len(session_summaries) = done
        /\ \A j \in 1..done :
              /\ session_summaries[j].start_chat_id = CHUNK_SIZE * (j - 1) + 1
              /\ session_summaries[j].end_chat_id = CHUNK_SIZE * j
        /\ drain.calls > CallsNeeded(b)
              => ~call.summarizer_called /\ ~call.committed
        /\ (b = 13 /\ drain.calls >= 1)
              => /\ Len(session_summaries) = 1
                 /\ session_summaries[1].start_chat_id = 1
                 /\ session_summaries[1].end_chat_id = 5
                 /\ Unsummarized(chats, DefaultSession) = 6..13

\* 13 turns, after the second call
C7_Witness ==
    /\ drain.backlog = 13 /\ drain.calls = 2
    /\ IsCompactCall(call) /\ ~call.committed
    /\ Len(session_summaries) = 1

\* C8 as stated: /chat requests, each appending a user and an assistant turn
\* and calling check_and_compact once, bring a backlog of B turns to at most
\* ACTIVE_WINDOW_SIZE unsummarized turns within ceil(B / CHUNK_SIZE) requests.
C8_DrainWithinBacklogOverChunk ==
    drain.calls = CeilDiv(drain.backlog, CHUNK_SIZE)
        => CountUnsummarized(chats, DefaultSession) <= ACTIVE_WINDOW_SIZE

\* C8, amended: each request adds two turns before it folds CHUNK_SIZE, so the
\* backlog is within the window after ceil(B / (CHUNK_SIZE - 2)) requests, and
\* stays there.
C8_DrainWithinNetRate ==
    drain.calls >= CeilDiv(drain.backlog, CHUNK_SIZE - 2)
        => CountUnsummarized(chats, DefaultSession) <= ACTIVE_WINDOW_SIZE

\* a backlog that needed more than ceil(B / CHUNK_SIZE) requests has drained
C8_Witness ==
    /\ drain.backlog = 29
    /\ drain.calls = CeilDiv(29, CHUNK_SIZE - 2)
    /\ call.op = "chat"
    /\ CountUnsummarized(chats, DefaultSession) <= ACTIVE_WINDOW_SIZE
    /\ Len(session_summaries) > CeilDiv(29, CHUNK_SIZE)

\* ------------------------------------------------------------------ C11
\* the turn with id i lies within the stored range of chapter ch
InRange(i, ch) == ch.start_chat_id <= i /\ i <= ch.end_chat_id

\* C11 as stated: in every reachable state, with turns of two sessions
\* interleaved in the shared id sequence, a turn is summarized if and only if
\* its id lies within [start_chat_id, end_chat_id] of some chapter.
C11_SummarizedIffInSomeRange ==
    \A i \in 1..Len(chats) :
        chats[i].is_summarized <=>
            \E k \in 1..Len(session_summaries) : InRange(i, session_summaries[k])

\* C11, amended: a turn is summarized if and only if its id lies within the
\* range of some chapter of the turn's own session.
C11_SummarizedIffInOwnSessionRange ==
    \A i \in 1..Len(chats) :
        chats[i].is_summarized <=>
            \E k \in 1..Len(session_summaries) :
                /\ session_summaries[k].session_id = chats[i].session_id
                /\ InRange(i, session_summaries[k])

\* an unsummarized turn of the other session whose id lies strictly inside
\* the range of a chapter of the default session
C11_Witness ==
    \E i \in 1..Len(chats) : \E k \in 1..Len(session_summaries) :
        /\ chats[i].session_id = OtherSession
        /\ ~chats[i].is_summarized
        /\ session_summaries[k].session_id = DefaultSession
        /\ session_summaries[k].start_chat_id < i
        /\ i < session_summaries[k].end_chat_id

\* ------------------------------------------------------------------ C12
\* b turns of session s, user and assistant alternating, none summarized,
\* written one per second after second t0
SessionBacklog(s, b, t0) ==
    [i \in 1..b |->
        NewTurn(s, IF i % 2 = 1 THEN "user" ELSE "assistant",
                   IF i % 2 = 1 THEN UserMsg ELSE Reply, t0 + i)]

\* the backlog from which check_and_compact can fold n chunks, one per call
ChunksBacklog(n) ==
    IF n = 0 THEN 0 ELSE ACTIVE_WINDOW_SIZE + 1 + CHUNK_SIZE * (n - 1)

\* both sessions hold a backlog, the other session's turns after the default
\* session's, and there is no chapter yet
InitLedger ==
    /\ \E a, b \in 0..MaxLedgerChapters :
          chats = SessionBacklog(DefaultSession, ChunksBacklog(a), 0)
                    \o SessionBacklog(OtherSession, ChunksBacklog(b),
                                      ChunksBacklog(a))
    /\ session_summaries = <<>>
    /\ call = NoCall
    /\ pc = IdleWorkers
    /\ local = NoLocals
    /\ users = SeededUsers
    /\ model_configs = {}
    /\ drain = NoDrain

\* compaction calls on either session, in any order, and summary reads
NextLedger ==
    \/ DoCheckAndCompact
    \/ DoGetSessionSummary

SpecLedger == InitLedger /\ [][NextLedger]_vars

\* the ids of the chapters of session s
ChapterIdsOf(summ, s) == {k \in 1..Len(summ) : summ[k].session_id = s}

\* C12: get_session_summary(session) returns the contents of exactly that
\* session's chapters, in ascending chapter-id order, each prefixed with "- "
\* and joined by newlines; it returns the empty string when the session has no
\* chapters, and chapters of other sessions never appear in it.
C12_SummaryIsOwnChaptersInOrder ==
    (call.op = "get_session_summary" /\ call.status = "ok")
    => LET K == ChapterIdsOf(session_summaries, call.session)
       IN  /\ Len(call.result) = Cardinality(K)
           /\ \A k \in K :
                 call.result[Cardinality({j \in K : j <= k})]
                    = <<"- ", session_summaries[k].content>>
           /\ (K = {}) => call.result = <<>>

\* a read of a session with two chapters of different contents, in a ledger
\* where a chapter of the other session lies between them
C12_Witness ==
    /\ call.op = "get_session_summary" /\ call.status = "ok"
    /\ \E i, j, k \in 1..Len(session_summaries) :
          /\ i < j /\ j < k
          /\ session_summaries[i].session_id = call.session
          /\ session_summaries[j].session_id # call.session
          /\ session_summaries[k].session_id = call.session
          /\ session_summaries[i].content # session_summaries[k].content

\* --------------------------------------------- requests executed step by step
\* The handlers are coroutines that never await: a request runs from its first
\* step to its return before the next one starts.  call holds the request in
\* flight, its events the steps taken so far.
TurnRequests == {"chat", "infer_with_prompt"}

\* the step the request in flight takes next
NextStep ==
    IF call.status = "running"
    THEN StepsOf(call.op)[Len(call.events) + 1]
    ELSE "none"

Took(step) == [call EXCEPT !.events = Append(@, step)]

BeginRequest(op) ==
    /\ call.status # "running"
    /\ call' = [NoCall EXCEPT !.op = op, !.status = "running"]
    /\ UNCHANGED <<chats, session_summaries, pc, local>>

\* INSERT INTO chats (..., "user", ...); conn.commit()
StepAppendUser ==
    /\ NextStep = "append_user"
    /\ chats' = InsertTurn(chats, DefaultSession, "user", UserMsg)
    /\ call' = Took("append_user")
    /\ UNCHANGED <<session_summaries, pc, local>>

\* /chat only: embedding and vector query
StepRetrieveContext ==
    /\ NextStep = "retrieve_context"
    /\ call' = Took("retrieve_context")
    /\ UNCHANGED <<chats, session_summaries, pc, local>>

\* /chat only: the system prompt with the retrieved memories, and the message
StepPreparePrompt ==
    /\ NextStep = "prepare_prompt"
    /\ call' = Took("prepare_prompt")
    /\ UNCHANGED <<chats, session_summaries, pc, local>>

\* ollama.chat(model, messages); a failure goes to the outer except
StepInfer(ok) ==
    /\ NextStep = "infer"
    /\ call' = IF ok THEN Took("infer")
               ELSE [call EXCEPT !.status = "500", !.events = FailedTrace(@)]
    /\ UNCHANGED <<chats, session_summaries, pc, local>>

\* INSERT INTO chats (..., "assistant", ...); conn.commit(); conn.close()
StepAppendAssistant ==
    /\ NextStep = "append_assistant"
    /\ chats' = InsertTurn(chats, DefaultSession, "assistant", Reply)
    /\ call' = Took("append_assistant")
    /\ UNCHANGED <<session_summaries, pc, local>>

\* the sidecar summary call inside its own try/except
StepSidecar(ok) ==
    /\ NextStep = "sidecar"
    /\ call' = [Took("sidecar") EXCEPT !.sidecar = SidecarOutcome(ok),
                                       !.status = AfterSidecar(ok)]
    /\ UNCHANGED <<chats, session_summaries, pc, local>>

\* /chat only: check_and_compact("default_session") inside its own try/except
StepCompactionCheck(fault, text) ==
    /\ NextStep = "compaction_check"
    /\ LET r == CheckAndCompactCall(DB, DefaultSession, fault, text)
       IN  /\ chats' = r.db.chats
           /\ session_summaries' = r.db.summaries
           /\ call' = [Took("compaction_check") EXCEPT
                           !.fault = r.fault,
                           !.summarizer_called = r.summarizer_called,
                           !.raised = r.raised, !.committed = r.committed,
                           !.status = AfterTrigger(r.raised)]
    /\ UNCHANGED <<pc, local>>

\* return {"response": ..., "new_memory": ...}
StepReturn ==
    /\ NextStep = "return"
    /\ call' = [Took("return") EXCEPT !.status = "200"]
    /\ UNCHANGED <<chats, session_summaries, pc, local>>

DoBeginRequest ==
    /\ Len(chats) + 2 <= MaxTurns
    /\ \E op \in TurnRequests : BeginRequest(op) /\ UNCHANGED <<drain, users, model_configs>>
DoStepAppendUser == StepAppendUser /\ UNCHANGED <<drain, users, model_configs>>
DoStepRetrieveContext == StepRetrieveContext /\ UNCHANGED <<drain, users, model_configs>>
DoStepPreparePrompt == StepPreparePrompt /\ UNCHANGED <<drain, users, model_configs>>
DoStepInfer == StepInfer(TRUE) /\ UNCHANGED <<drain, users, model_configs>>
DoStepInferFails ==
    LoneUsers(chats) <= MaxOddTurns /\ StepInfer(FALSE) /\ UNCHANGED <<drain, users, model_configs>>
DoStepAppendAssistant == StepAppendAssistant /\ UNCHANGED <<drain, users, model_configs>>
DoStepSidecar == \E ok \in BOOLEAN : StepSidecar(ok) /\ UNCHANGED <<drain, users, model_configs>>
DoStepCompactionCheck ==
    \E fault \in Faults : \E text \in Answers(fault) :
        StepCompactionCheck(fault, text) /\ UNCHANGED <<drain, users, model_configs>>
DoStepReturn == StepReturn /\ UNCHANGED <<drain, users, model_configs>>

NextChat ==
    \/ DoBeginRequest
    \/ DoStepAppendUser
    \/ DoStepRetrieveContext
    \/ DoStepPreparePrompt
    \/ DoStepInfer
    \/ DoStepInferFails
    \/ DoStepAppendAssistant
    \/ DoStepSidecar
    \/ DoStepCompactionCheck
    \/ DoStepReturn

SpecChat == Init /\ [][NextChat]_vars

\* ------------------------------------------------------------------ C13
\* the position of event e in the request's trace, 0 when it did not occur
Pos(e) ==
    IF \E k \in 1..Len(call.events) : call.events[k] = e
    THEN CHOOSE k \in 1..Len(call.events) : call.events[k] = e
    ELSE 0

Has(e) == Pos(e) > 0
Before(a, b) == Has(a) /\ Has(b) /\ Pos(a) < Pos(b)
IsTurnRequest == call.op \in TurnRequests

\* C13 as stated: in every request that appends turns the events occur in the
\* order user-turn append, compaction check, context assembly, prompt
\* rendering, inference, assistant-turn append; in particular every request
\* that appends a user turn also runs a compaction check, and that check
\* precedes the inference call.
C13_CompactionCheckPrecedesInference ==
    IsTurnRequest =>
        /\ Has("infer") =>
              /\ Before("append_user", "compaction_check")
              /\ Before("compaction_check", "infer")
        /\ (Has("append_user") /\ call.status = "200") => Has("compaction_check")

\* C13, amended: in every request that appends turns the user-turn append
\* precedes the inference and the inference precedes the assistant-turn
\* append; a compaction check is run only by /chat, by every /chat request
\* that returns, and there it follows the inference and the assistant-turn
\* append (it sees both new turns); /infer_with_prompt runs none.
C13_CompactionCheckFollowsAppends ==
    IsTurnRequest =>
        /\ Has("infer") => Before("append_user", "infer")
        /\ Has("append_assistant") => Before("infer", "append_assistant")
        /\ Has("compaction_check") =>
              /\ call.op = "chat"
              /\ Before("infer", "compaction_check")
              /\ Before("append_assistant", "compaction_check")
              /\ chats[Len(chats)].role = "assistant"
        /\ (call.op = "chat" /\ call.status = "200") => Has("compaction_check")
        /\ (call.events # <<>> /\ call.events[Len(call.events)] = "infer")
              => chats[Len(chats)].role = "user"

\* a /chat request that has returned and whose compaction check folded a chunk
C13_Witness ==
    /\ call.op = "chat" /\ call.status = "200"
    /\ Has("compaction_check") /\ call.committed

\* ------------------------------------------------------------------ C14
\* C14: in a /chat request whose main inference succeeded, the request returns
\* the assistant response and both turns are committed, whether the sidecar
\* call or check_and_compact succeeds, fails inside, or raises: no outcome of
\* either ends the request with an error or removes a turn.
C14_BestEffortSidecarAndCompaction ==
    (call.op = "chat" /\ Has("infer")) =>
        /\ call.status \in {"running", "200"}
        /\ call.status = "running" => NextStep \in {"append_assistant", "sidecar",
                                                    "compaction_check", "return"}
        /\ Has("append_assistant") =>
              /\ Len(chats) >= 2
              /\ chats[Len(chats) - 1].session_id = DefaultSession
              /\ chats[Len(chats) - 1].role = "user"
              /\ chats[Len(chats)].session_id = DefaultSession
              /\ chats[Len(chats)].role = "assistant"
              /\ chats[Len(chats)].content = Reply
        /\ call.status = "200" => (Has("append_assistant") /\ Has("return"))

\* a /chat request that returned although its sidecar call failed and its
\* check_and_compact call raised
C14_Witness ==
    /\ call.op = "chat" /\ call.status = "200"
    /\ call.sidecar = "failed" /\ call.raised

\* ------------------------------------------------------- profiles.py
\* reversed(seq)
Reversed(seq) == [k \in 1..Len(seq) |-> seq[Len(seq) + 1 - k]]

\* Python truthiness of a string or None
TruthyStr(x) == x # Null /\ x # ""

\* a or b
PyOr(a, b) == IF TruthyStr(a) THEN a ELSE b

\* d.get(key, default): the default is used only when the key is missing
PyGet(d, key, default) == IF key \in DOMAIN d THEN d[key] ELSE default

EmptyDict == [k \in {} |-> ""]

\* variant: keys already present keep their value
DictUpdateKeepsOld(d, o) ==
    [k \in DOMAIN d \cup DOMAIN o |-> IF k \in DOMAIN d THEN d[k] ELSE o[k]]

\* d.update(o)
DictUpdate(d, o) ==
    [k \in DOMAIN d \cup DOMAIN o |-> IF k \in DOMAIN o THEN o[k] ELSE d[k]]

\* json.loads of the preference texts that occur
JsonLoads(text) ==
    CASE text = DefaultPrefsText ->
            [style |-> "structural", detail_level |-> "high",
             show_prompt_inspector |-> TRUE]
      [] text = "{}" -> EmptyDict

GuestProfile ==
    [user_id |-> "guest", display_name |-> "Guest",
     workspace |-> "Guest Workspace", preferences |-> EmptyDict]

\* get_user_profile(user_id)
GetUserProfile(tbl, user_id) ==
    IF \E u \in tbl : u.user_id = user_id
    THEN LET u == CHOOSE u \in tbl : u.user_id = user_id
         IN  [user_id |-> u.user_id, display_name |-> u.display_name,
              workspace |-> u.workspace,
              preferences |-> IF TruthyStr(u.preferences)
                              THEN JsonLoads(u.preferences) ELSE EmptyDict]
    ELSE GuestProfile

\* A model name, and a display name, is the sequence of the tokens it is the
\* concatenation of; "tok in name" is the occurrence of the token.
NameTokens == {"phi3", "qwen", "foo-bar"}
ModelNames == UNION {[1..n -> NameTokens] : n \in 1..MaxNameLen}
Contains(name, tok) == \E i \in 1..Len(name) : name[i] = tok

\* the family tokens in the order the if / elif chain examines them
KnownFamilies == <<"phi3", "qwen">>

\* the assignments of one branch of the chain
Adjust(profile, tok) ==
    IF tok = "phi3"
    THEN [profile EXCEPT !.display_name = <<"Phi-3 Mini">>,
                         !.context_limit = 128000]
    ELSE [profile EXCEPT !.display_name = <<"Qwen 2.5">>,
                         !.base_system_prompt = "You are Qwen, a helpful assistant."]

\* variant: independent if statements, every branch whose token occurs runs
ApplyHeuristicsAll(profile, name, order) ==
    LET hits == SelectSeq(order, LAMBDA tok : Contains(name, tok))
    IN  IF hits = <<>> THEN profile
        ELSE IF Len(hits) = 1 THEN Adjust(profile, hits[1])
        ELSE Adjust(Adjust(profile, hits[1]), hits[2])

\* if tok1 in name: ... elif tok2 in name: ... with the tokens examined in
\* the given order: only the first branch whose token occurs runs
ApplyHeuristics(profile, name, order) ==
    LET hits == SelectSeq(order, LAMBDA tok : Contains(name, tok))
    IN  IF hits = <<>> THEN profile ELSE Adjust(profile, hits[1])

DefaultModelProfile(name) ==
    [model_id |-> name, display_name |-> name, context_limit |-> 4096,
     prompt_template |-> "standard_chat",
     base_system_prompt |-> "You are a helpful local assistant."]

\* variant: the stored row is not consulted
GetModelProfileIgnoresStored(cfgs, name) ==
    ApplyHeuristics(DefaultModelProfile(name), name, KnownFamilies)

\* get_model_profile(model_name)
GetModelProfile(cfgs, name) ==
    IF \E m \in cfgs : m.model_id = name
    THEN LET m == CHOOSE m \in cfgs : m.model_id = name
         IN  [model_id |-> m.model_id, display_name |-> m.display_name,
              context_limit |-> m.context_limit,
              base_system_prompt |-> m.base_system_prompt,
              prompt_template |-> "standard_chat"]
    ELSE ApplyHeuristics(DefaultModelProfile(name), name, KnownFamilies)

\* ----------------------------------------------------- orchestrator.py
\* A text is the sequence of its lines and a line the sequence of the pieces
\* an f-string or a join puts together; <<>> is the empty text.
\* str(x) as an f-string formats it
Str(x) == IF x = Null THEN "None" ELSE x

\* session_summary_block, "New session started." when it is empty
ShortTerm(block) ==
    IF block = <<>> THEN << <<"New session started.">> >> ELSE block

\* sys_prompt = system_prompt_override or model_profile.get("base_system_prompt", ...)
SysPrompt(override, model_profile) ==
    PyOr(override,
         PyGet(model_profile, "base_system_prompt", "You are a helpful assistant."))

\* Orchestrator.build_context_schema on the tables tbl, cfgs and the ledger
\* summ.  a: the arguments; summaryOK: the ledger query succeeds
BuildContextSchema(tbl, cfgs, summ, summaryOK, a) ==
    LET base == GetUserProfile(tbl, "demo_user")
        user_profile == IF a.identity_overrides # EmptyDict
                        THEN DictUpdate(base, a.identity_overrides)
                        ELSE base
        model_profile == GetModelProfile(cfgs, a.model)
        block == IF summaryOK
                 THEN GetSessionSummaryResult(summ, DefaultSession)
                 ELSE <<>>
    IN  [meta |-> [user_profile |-> user_profile,
                   model_profile |-> model_profile,
                   token_estimate |-> (Len(a.message) \div 4) + 500],
         system |-> SysPrompt(a.system_prompt, model_profile),
         identity |-> [user_name |-> PyGet(user_profile, "display_name", "User"),
                       workspace |-> PyGet(user_profile, "workspace", "Default"),
                       assistant_name |-> "LocalMIND Agent"],
         memory |-> [long_term |-> a.memories, short_term |-> ShortTerm(block)],
         rag_context |-> a.rag_context,
         history |-> a.history,
         current_message |-> a.message]

\* ltm: "- " + content per memory, or the fallback line
LtmBlock(memories) ==
    IF memories # <<>>
    THEN [k \in 1..Len(memories) |-> <<"- ", memories[k].content>>]
    ELSE << <<"No relevant long-term memories.">> >>

\* variant: an empty rag_context is rendered as it is
RagBlockNoFallback(rag) == [k \in 1..Len(rag) |-> <<rag[k]>>]

\* rag: the retrieved documents, or the fallback line
RagBlock(rag) ==
    IF rag # <<>>
    THEN [k \in 1..Len(rag) |-> <<rag[k]>>]
    ELSE << <<"No relevant documents found.">> >>

\* role = "User" if h['role'] == 'user' else "Assistant"
HistoryLabel(role) == IF role = "user" THEN "User" ELSE "Assistant"

\* variant: the newest item first
HistBlockNewestFirst(history) ==
    [k \in 1..Len(history) |->
        <<HistoryLabel(history[Len(history) + 1 - k].role), ": ",
          history[Len(history) + 1 - k].content>>]

\* hist_str: one line "<label>: <content>" per item; the newline that ends
\* the last one and the template's own give the empty line after the block
HistBlock(history) ==
    [k \in 1..Len(history) |->
        <<HistoryLabel(history[k].role), ": ", history[k].content>>]

Blank == <<"">>

\* Orchestrator.render_final_prompt(schema)
RenderFinalPrompt(schema) ==
    << <<"=== SYSTEM ===">>, <<Str(schema.system)>>, Blank,
       <<"=== IDENTITY ===">>,
       <<"User: ", Str(schema.identity.user_name)>>,
       <<"Workspace: ", Str(schema.identity.workspace)>>, Blank,
       <<"=== PREVIOUS SESSION CONTEXT ===">>,
       <<"(Summary of earlier conversation)">> >>
    \o schema.memory.short_term
    \o << Blank, <<"=== LONG-TERM MEMORY (RAG) ===">> >>
    \o LtmBlock(schema.memory.long_term)
    \o << Blank, <<"=== RETRIEVED DOCUMENTS ===">> >>
    \o RagBlock(schema.rag_context)
    \o << Blank, <<"=== RECENT HISTORY ===">> >>
    \o HistBlock(schema.history)
    \o << Blank, <<"=== CURRENT MESSAGE ===">>,
          <<"User: ", schema.current_message>>, Blank, <<"Assistant:">> >>

\* --------------------------------------- build_context_schema, call by call
\* what the tables users and model_configs may hold: the seeded user, no
\* user, a user without preferences; no stored model, or one stored model
\* with or without a base system prompt
UsersTables ==
    {SeededUsers, {},
     {[user_id |-> "demo_user", display_name |-> "Jacob",
       workspace |-> "LocalMIND Lab", preferences |-> Null]}}

StoredPrompts == {"You are the stored persona.", Null}

StoredModel(name, prompt) ==
    [model_id |-> name, display_name |-> <<"Stored Name">>,
     context_limit |-> 8192, base_system_prompt |-> prompt]

ModelConfigsTables ==
    {{}} \cup {{StoredModel(n, p)} :
                  n \in {m \in ModelNames : Len(m) = 1}, p \in StoredPrompts}

\* system_prompt_override: none, empty, given
SystemPromptOverrides == {Null, "", "Be terse."}

\* identity_overrides: None and {} alike are the empty dict
IdentityOverrides ==
    {EmptyDict, [display_name |-> "Alice"], [workspace |-> "Attic"],
     [display_name |-> "Alice", nickname |-> "Al"]}

SchemaArgs(message, model, system_prompt, memories, rag, history, overrides) ==
    [message |-> message, model |-> model, system_prompt |-> system_prompt,
     memories |-> memories, rag_context |-> rag, history |-> history,
     identity_overrides |-> overrides]

\* the tables as provisioned and one build_context_schema call about to run
InitProfile ==
    /\ chats = <<>>
    /\ session_summaries = <<>>
    /\ users \in UsersTables
    /\ model_configs \in ModelConfigsTables
    /\ \E model \in ModelNames, sp \in SystemPromptOverrides,
          ov \in IdentityOverrides :
          call = [NoCall EXCEPT !.op = "build_context_schema",
                                !.status = "running",
                                !.args = SchemaArgs(UserMsg, model, sp, <<>>,
                                                    <<>>, <<>>, ov)]
    /\ pc = IdleWorkers
    /\ local = NoLocals
    /\ drain = NoDrain

\* the call runs
BuildContextSchemaCall ==
    /\ call.op = "build_context_schema" /\ call.status = "running"
    /\ call' = [call EXCEPT !.status = "ok",
                    !.result = BuildContextSchema(users, model_configs,
                                   session_summaries, TRUE, call.args)]
    /\ UNCHANGED <<chats, session_summaries, pc, local, drain, users,
                   model_configs>>

SpecProfile == InitProfile /\ [][BuildContextSchemaCall]_vars

\* a completed build_context_schema call
SchemaBuilt == call.op = "build_context_schema" /\ call.status = "ok"

\* ------------------------------------------------------------------ C16
\* C16 as stated: the system prompt is the override when one is given,
\* otherwise the model profile's base prompt, otherwise the hardcoded generic
\* fallback; the selected prompt is never absent or null, also for a stored
\* profile whose base_system_prompt is NULL and no override.
C16_SystemPromptNeverNull ==
    SchemaBuilt =>
        LET given == call.args.system_prompt
            stored == call.result.meta.model_profile.base_system_prompt
        IN  /\ call.result.system # Null
            /\ call.result.system =
                  IF TruthyStr(given) THEN given
                  ELSE IF stored # Null THEN stored
                  ELSE "You are a helpful assistant."

\* a schema built for a stored model without base prompt and without
\* override: its system prompt is None
C16_Witness ==
    /\ SchemaBuilt
    /\ \E m \in model_configs :
          m.model_id = call.args.model /\ m.base_system_prompt = Null
    /\ ~TruthyStr(call.args.system_prompt)
    /\ call.result.system = Null

\* ------------------------------------------------------------------ C17
\* C17: the resolved user profile is the base profile with the override keys
\* replacing the base values; with no stored record the base is the guest
\* profile (display_name "Guest", empty preferences); the identity block
\* (user_name, workspace) reflects the merged values.
C17_UserProfileMerge ==
    SchemaBuilt =>
        LET ov == call.args.identity_overrides
            up == call.result.meta.user_profile
            ident == call.result.identity
            rows == {u \in users : u.user_id = "demo_user"}
        IN  /\ \A k \in DOMAIN ov : k \in DOMAIN up /\ up[k] = ov[k]
            /\ {"user_id", "display_name", "workspace", "preferences"}
                  \subseteq DOMAIN up
            /\ DOMAIN up \subseteq
                  {"user_id", "display_name", "workspace", "preferences"}
                      \cup DOMAIN ov
            /\ \A u \in rows :
                  /\ "display_name" \notin DOMAIN ov
                        => up.display_name = u.display_name
                  /\ "workspace" \notin DOMAIN ov => up.workspace = u.workspace
                  /\ up.user_id = u.user_id
            /\ rows = {} =>
                  /\ "display_name" \notin DOMAIN ov => up.display_name = "Guest"
                  /\ up.preferences = EmptyDict
                  /\ up.user_id = "guest"
            /\ ident.user_name = up.display_name
            /\ ident.workspace = up.workspace

\* no stored user and an override of the workspace only: the identity block
\* names the guest in the overriding workspace
C17_Witness ==
    /\ SchemaBuilt
    /\ users = {}
    /\ call.args.identity_overrides = [workspace |-> "Attic"]
    /\ call.result.identity.user_name = "Guest"
    /\ call.result.identity.workspace = "Attic"

\* ------------------------------------------------------------------ C18
\* the stored rows for the requested model name
StoredFor(name) == {m \in model_configs : m.model_id = name}

\* C18: a model name with no stored configuration and no known family token
\* ("foo-bar") gets context_limit 4096, the model name as display_name,
\* template "standard_chat" and the generic default system prompt; a stored
\* configuration for the exact name always takes precedence.
C18_ModelProfileFallback ==
    SchemaBuilt =>
        LET name == call.args.model
            mp == call.result.meta.model_profile
        IN  /\ \A m \in StoredFor(name) :
                  /\ mp.model_id = name
                  /\ mp.display_name = m.display_name
                  /\ mp.context_limit = m.context_limit
                  /\ mp.base_system_prompt = m.base_system_prompt
                  /\ mp.prompt_template = "standard_chat"
            /\ (/\ StoredFor(name) = {}
                /\ \A k \in 1..Len(KnownFamilies) : ~Contains(name, KnownFamilies[k]))
               => /\ mp.model_id = name
                  /\ mp.display_name = name
                  /\ mp.context_limit = 4096
                  /\ mp.prompt_template = "standard_chat"
                  /\ mp.base_system_prompt = "You are a helpful local assistant."

\* the profile of "foo-bar" while a configuration is stored for another name
C18_Witness ==
    /\ SchemaBuilt
    /\ call.args.model = <<"foo-bar">>
    /\ model_configs # {} /\ StoredFor(<<"foo-bar">>) = {}
    /\ call.result.meta.model_profile.context_limit = 4096

\* ------------------------------------------------------------------ C19
\* C19 as stated: the name-substring heuristic is order-independent: for a
\* name containing both "phi3" and "qwen" the resulting profile does not
\* depend on the order in which the tokens are examined, and the adjustments
\* of every token present are applied.
C19_HeuristicOrderIndependent ==
    (SchemaBuilt /\ StoredFor(call.args.model) = {}) =>
        LET name == call.args.model
            mp == call.result.meta.model_profile
        IN  /\ mp = ApplyHeuristics(DefaultModelProfile(name), name,
                                    Reversed(KnownFamilies))
            /\ Contains(name, "phi3") => mp.context_limit = 128000
            /\ Contains(name, "qwen") =>
                  mp.base_system_prompt = "You are Qwen, a helpful assistant."

\* C19, amended: the heuristic is a first-match chain examined in the order
\* "phi3", "qwen": a name containing "phi3" gets the phi3 adjustments only,
\* also when it contains "qwen"; a name containing "qwen" and not "phi3"
\* gets the qwen adjustments; the result is independent of the examination
\* order for names containing at most one of the tokens.
C19_HeuristicFirstMatch ==
    (SchemaBuilt /\ StoredFor(call.args.model) = {}) =>
        LET name == call.args.model
            mp == call.result.meta.model_profile
        IN  /\ Contains(name, "phi3") =>
                  /\ mp.display_name = <<"Phi-3 Mini">>
                  /\ mp.context_limit = 128000
                  /\ mp.base_system_prompt = "You are a helpful local assistant."
            /\ (Contains(name, "qwen") /\ ~Contains(name, "phi3")) =>
                  /\ mp.display_name = <<"Qwen 2.5">>
                  /\ mp.context_limit = 4096
                  /\ mp.base_system_prompt = "You are Qwen, a helpful assistant."
            /\ ~(Contains(name, "phi3") /\ Contains(name, "qwen")) =>
                  mp = ApplyHeuristics(DefaultModelProfile(name), name,
                                       Reversed(KnownFamilies))

\* the synthesized profile of a name that contains both tokens, "qwen" first
C19_Witness ==
    /\ SchemaBuilt /\ StoredFor(call.args.model) = {}
    /\ call.args.model = <<"qwen", "phi3">>
    /\ call.result.meta.model_profile.display_name = <<"Phi-3 Mini">>

\* ------------------------------------------------------ POST /build_prompt
\* the members of G in every order
ArrangementsOf(G) ==
    {f \in [1..Cardinality(G) -> G] :
        \A a, b \in 1..Cardinality(G) : a # b => f[a] # f[b]}

\* the rows S of c by descending timestamp, rows of equal timestamp in any
\* order
RECURSIVE OrdersOf(_, _)
OrdersOf(c, S) ==
    IF S = {} THEN {<<>>}
    ELSE LET top == SetMax({c[i].timestamp : i \in S})
             G == {i \in S : c[i].timestamp = top}
         IN  {p \o rest : p \in ArrangementsOf(G), rest \in OrdersOf(c, S \ G)}

\* "SELECT role, content FROM chats ORDER BY timestamp DESC": the ids of all
\* rows of all sessions, newest timestamp first.  timestamp is the insertion
\* time in whole seconds and the only sort key, so the query fixes no order
\* among rows written within one second: the set of the orders it may return
OrderByTimestampDesc(c) == OrdersOf(c, 1..Len(c))

\* the ids of the rows "... LIMIT 20" returns when the query's order is
\* order, reversed by the handler
HistoryIds(c, order) == Reversed(Limit(order, HISTORY_LIMIT))

\* history: role and content of those rows
History(c, order) ==
    LET ids == HistoryIds(c, order)
    IN  [k \in 1..Len(ids) |->
            [role |-> c[ids[k]].role, content |-> c[ids[k]].content]]

\* what collection.get / collection.query may give back
MemoryLists ==
    {<<>>, <<[content |-> "fact one"]>>,
     <<[content |-> "fact one"], [content |-> "fact two"]>>}
RagContexts == {<<>>, <<"doc A">>}

\* build_prompt_endpoint.  ok: the retrieval calls succeed (a failure goes to
\* the handler's except: HTTP 500); memories, rag: what they return;
\* summaryOK: the ledger query inside build_context_schema succeeds; order:
\* the order the history query returns the rows in
BuildPromptEndpoint(message, model, system_prompt, ok, memories, rag, summaryOK, order) ==
    LET args == SchemaArgs(message, model, system_prompt, memories, rag,
                           History(chats, order), EmptyDict)
        schema == BuildContextSchema(users, model_configs, session_summaries,
                                     summaryOK, args)
    IN  /\ call' = IF ok
                   THEN [NoCall EXCEPT !.op = "build_prompt", !.status = "200",
                             !.args = args,
                             !.result = [schema |-> schema,
                                         final_prompt |-> RenderFinalPrompt(schema),
                                         meta |-> schema.meta,
                                         history_ids |-> HistoryIds(chats, order)]]
                   ELSE [NoCall EXCEPT !.op = "build_prompt", !.status = "500"]
        /\ UNCHANGED <<chats, session_summaries, pc, local, drain, users,
                       model_configs>>

DoBuildPrompt ==
    \E memories \in MemoryLists, rag \in RagContexts, summaryOK \in BOOLEAN,
       order \in OrderByTimestampDesc(chats) :
        BuildPromptEndpoint(UserMsg, <<"qwen">>, "", TRUE, memories, rag,
                            summaryOK, order)
DoBuildPromptFails ==
    \E order \in OrderByTimestampDesc(chats) :
        BuildPromptEndpoint(UserMsg, <<"qwen">>, "", FALSE, <<>>, <<>>, TRUE,
                            order)

\* a backlog, compaction calls on it, and prompts built in between
NextPrompt ==
    \/ StaticCall
    \/ DoBuildPrompt
    \/ DoBuildPromptFails

SpecPrompt == InitBacklog /\ [][NextPrompt]_vars

\* a /build_prompt request that returned a prompt
PromptBuilt == call.op = "build_prompt" /\ call.status = "200"

\* ------------------------------------------------------------------ C15
\* C15 as stated: the history of every context schema the prompt-building
\* pipeline builds is the active window: it contains only unsummarized turns.
C15_HistoryIsActiveWindow ==
    PromptBuilt =>
        \A k \in 1..Len(call.result.history_ids) :
            ~chats[call.result.history_ids[k]].is_summarized

\* a prompt whose history holds a summarized turn while the chapter that
\* covers it is in the schema's short-term memory
C15_Witness ==
    /\ PromptBuilt
    /\ \E k \in 1..Len(call.result.history_ids) :
          chats[call.result.history_ids[k]].is_summarized
    /\ call.result.schema.memory.short_term # << <<"New session started.">> >>
    /\ Len(call.result.schema.history) = Len(call.result.history_ids)

\* ------------------------------------------------------------------ C20
SectionHeaders ==
    << <<"=== SYSTEM ===">>, <<"=== IDENTITY ===">>,
       <<"=== PREVIOUS SESSION CONTEXT ===">>,
       <<"=== LONG-TERM MEMORY (RAG) ===">>,
       <<"=== RETRIEVED DOCUMENTS ===">>, <<"=== RECENT HISTORY ===">>,
       <<"=== CURRENT MESSAGE ===">> >>

IsHeader(line) == \E k \in 1..Len(SectionHeaders) : SectionHeaders[k] = line

\* the lines of prompt p between the header line and the next empty line
Section(p, header) ==
    LET i == CHOOSE k \in 1..Len(p) : p[k] = header
        j == SetMin({k \in (i + 1)..Len(p) : p[k] = <<"">>})
    IN  SubSeq(p, i + 1, j - 1)

\* C20: the rendered prompt has the sections SYSTEM, IDENTITY, PREVIOUS
\* SESSION CONTEXT, LONG-TERM MEMORY, RETRIEVED DOCUMENTS, RECENT HISTORY,
\* CURRENT MESSAGE in this order and ends with "Assistant:"; for a schema
\* assembled with no chapters, no semantic hits and an empty rag_context the
\* three memory sections hold exactly "New session started." (under the
\* section's fixed caption), "No relevant long-term memories." and "No
\* relevant documents found.".
C20_RenderLayoutAndFallbacks ==
    PromptBuilt =>
        LET p == call.result.final_prompt
            s == call.result.schema
        IN  /\ SelectSeq(p, IsHeader) = SectionHeaders
            /\ p[Len(p)] = <<"Assistant:">>
            /\ (/\ \A k \in 1..Len(session_summaries) :
                        session_summaries[k].session_id # DefaultSession
                /\ s.memory.long_term = <<>>
                /\ s.rag_context = <<>>)
               => /\ Section(p, <<"=== PREVIOUS SESSION CONTEXT ===">>)
                        = << <<"(Summary of earlier conversation)">>,
                             <<"New session started.">> >>
                  /\ Section(p, <<"=== LONG-TERM MEMORY (RAG) ===">>)
                        = << <<"No relevant long-term memories.">> >>
                  /\ Section(p, <<"=== RETRIEVED DOCUMENTS ===">>)
                        = << <<"No relevant documents found.">> >>

\* a prompt built for a transcript with turns, no chapter, no memory and no
\* retrieved document
C20_Witness ==
    /\ PromptBuilt
    /\ session_summaries = <<>> /\ Len(chats) > 2
    /\ call.args.memories = <<>> /\ call.args.rag_context = <<>>
    /\ Len(call.result.final_prompt) > 20

\* ------------------------------------------------------ POST /render_prompt
MaxMissingKeys == 1
MaxHistoryLen == 2

\* the keys build_context_schema documents, as paths into the schema
DocumentedKeys ==
    {<<"meta">>, <<"system">>, <<"identity">>, <<"identity", "user_name">>,
     <<"identity", "workspace">>, <<"memory">>, <<"memory", "long_term">>,
     <<"memory", "short_term">>, <<"rag_context">>, <<"history">>,
     <<"current_message">>}

\* variant: the renderer looks up "meta" as well
ReadPathsWithMeta ==
    DocumentedKeys \cup {<<"meta">>}

\* the subscripts render_final_prompt evaluates: schema["system"],
\* schema["identity"], ident['user_name'], ident['workspace'],
\* schema['memory']['long_term'], schema['memory']['short_term'],
\* schema['rag_context'], schema['history'], schema['current_message']
ReadPaths ==
    {<<"system">>, <<"identity">>, <<"identity", "user_name">>,
     <<"identity", "workspace">>, <<"memory">>, <<"memory", "long_term">>,
     <<"memory", "short_term">>, <<"rag_context">>, <<"history">>,
     <<"current_message">>}

\* d[path[1]][path[2]]... can be evaluated without a KeyError
HasPath(d, path) ==
    /\ path[1] \in DOMAIN d
    /\ Len(path) = 2 => path[2] \in DOMAIN d[path[1]]

\* render_final_prompt on any dict: a subscript of a missing key raises
\* KeyError before anything is returned
RenderFinalPromptOutcome(schema) ==
    IF \A p \in ReadPaths : HasPath(schema, p)
    THEN [raised |-> FALSE, final_prompt |-> RenderFinalPrompt(schema)]
    ELSE [raised |-> TRUE, final_prompt |-> <<>>]

\* render_prompt_endpoint: the rendered prompt, or HTTP 500 on any exception
RenderPromptEndpoint(schema_data) ==
    LET r == RenderFinalPromptOutcome(schema_data)
    IN  /\ call' = [NoCall EXCEPT !.op = "render_prompt",
                        !.status = IF r.raised THEN "500" ELSE "200",
                        !.raised = r.raised,
                        !.args = schema_data,
                        !.result = r.final_prompt]
        /\ UNCHANGED <<chats, session_summaries, pc, local, drain, users,
                       model_configs>>

\* schema_data: a dict of the caller's; here a schema without the keys P
DropKeys(schema, P) ==
    LET top == {p[1] : p \in {q \in P : Len(q) = 1}}
        inner(k) == {p[2] : p \in {q \in P : Len(q) = 2 /\ q[1] = k}}
    IN  [k \in DOMAIN schema \ top |->
            IF inner(k) = {} THEN schema[k]
            ELSE [j \in DOMAIN schema[k] \ inner(k) |-> schema[k][j]]]

\* every key a schema can lack: the documented ones and assistant_name
SchemaKeys == DocumentedKeys \cup {<<"identity", "assistant_name">>}

\* the history lists a caller may pass: any roles, repeats, any order
HistoryItems ==
    {[role |-> "user", content |-> "q"], [role |-> "assistant", content |-> "r"],
     [role |-> "system", content |-> "s"]}
HistoryLists ==
    UNION {[1..n -> HistoryItems] : n \in 0..MaxHistoryLen}

\* the tables as seeded and one build_context_schema call about to run
InitRender ==
    /\ chats = <<>>
    /\ session_summaries = <<>>
    /\ users = SeededUsers
    /\ model_configs = {}
    /\ \E memories \in MemoryLists, rag \in RagContexts,
          history \in HistoryLists :
          call = [NoCall EXCEPT !.op = "build_context_schema",
                                !.status = "running",
                                !.args = SchemaArgs(UserMsg, <<"qwen">>, Null,
                                             memories, rag, history, EmptyDict)]
    /\ pc = IdleWorkers
    /\ local = NoLocals
    /\ drain = NoDrain

\* the schema just built is posted to /render_prompt, whole or with keys
\* missing
DoRenderPrompt ==
    /\ call.op = "build_context_schema" /\ call.status = "ok"
    /\ \E P \in {Q \in SUBSET SchemaKeys : Cardinality(Q) <= MaxMissingKeys} :
          RenderPromptEndpoint(DropKeys(call.result, P))

NextRender ==
    \/ BuildContextSchemaCall
    \/ DoRenderPrompt

SpecRender == InitRender /\ [][NextRender]_vars

\* ------------------------------------------------------------------ C21
\* C21 as stated: render_final_prompt called with a schema that lacks any
\* documented required key (meta, system, identity with user_name and
\* workspace, memory with long_term and short_term, rag_context, history,
\* current_message) fails with an error and returns no prompt.
C21_IncompleteSchemaFails ==
    call.op = "render_prompt" =>
        ((\E p \in DocumentedKeys : ~HasPath(call.args, p))
            => call.status = "500" /\ call.result = <<>>)

\* C21, amended: rendering fails, returning no prompt, exactly when the
\* schema lacks a key the renderer reads (system, identity, user_name,
\* workspace, memory, long_term, short_term, rag_context, history,
\* current_message); meta and assistant_name are never read, and a schema
\* that lacks only those renders to the same prompt as the complete schema.
C21_MissingReadKeyFails ==
    [][call'.op = "render_prompt" /\ call.op = "build_context_schema" =>
        LET complete == call.result
            data == call'.args
            lacking == {p \in SchemaKeys : ~HasPath(data, p)}
            unread == {<<"meta">>, <<"identity", "assistant_name">>}
        IN  /\ lacking \ unread # {}
                => call'.status = "500" /\ call'.result = <<>>
            /\ lacking \ unread = {}
                => /\ call'.status = "200"
                   /\ call'.result = RenderFinalPrompt(complete)]_vars

\* a schema without meta was rendered
C21_Witness ==
    /\ call.op = "render_prompt"
    /\ call.status = "200"
    /\ "meta" \notin DOMAIN call.args
    /\ Len(call.result) > 0

\* ------------------------------------------------------------------ C25
\* C25: build_context_schema puts the caller's history list into the schema
\* unmodified, and render_final_prompt emits exactly one line per history
\* item, in input order, "User: <content>" for role user and
\* "Assistant: <content>" for any other role: no item is dropped, reordered,
\* windowed or duplicated.
C25_HistoryPassThrough ==
    /\ SchemaBuilt => call.result.history = call.args.history
    /\ call.op = "render_prompt" /\ call.status = "200" =>
          LET h == call.args.history
          IN  Section(call.result, <<"=== RECENT HISTORY ===">>) =
                 [k \in 1..Len(h) |->
                     <<IF h[k].role = "user" THEN "User" ELSE "Assistant",
                       ": ", h[k].content>>]

\* a history of two different items, the first of a role that is neither
\* user nor assistant, was rendered
C25_Witness ==
    /\ call.op = "render_prompt" /\ call.status = "200"
    /\ Len(call.args.history) = 2
    /\ call.args.history[1].role = "system"
    /\ call.args.history[2].role = "user"
    /\ Section(call.result, <<"=== RECENT HISTORY ===">>) =
          << <<"Assistant", ": ", "s">>, <<"User", ": ", "q">> >>

\* ------------------------------------------------------------------ C22
\* C22: short tails are never compacted (handlers run one at a time): every
\* chapter covers exactly CHUNK_SIZE turns of its session, right after a
\* committed compaction at least ACTIVE_WINDOW_SIZE - CHUNK_SIZE + 1 turns of
\* the session are unsummarized, and in every state the newest
\* ACTIVE_WINDOW_SIZE - CHUNK_SIZE + 1 turns of each session (all of them,
\* when it has fewer) are unsummarized.
C22_ShortTailsNeverCompacted ==
    LET reserve == ACTIVE_WINDOW_SIZE - CHUNK_SIZE + 1
    IN  /\ \A k \in 1..Len(session_summaries) :
              Cardinality(Covered(chats, session_summaries[k].session_id,
                                  session_summaries[k])) = CHUNK_SIZE
        /\ call.committed =>
              CountUnsummarized(chats, call.session) >= reserve
        /\ \A s \in Sessions : \A i \in SessionIds(chats, s) :
              Cardinality({j \in SessionIds(chats, s) : j >= i}) <= reserve
                  => ~chats[i].is_summarized

\* a compaction has just committed and left exactly the reserve unsummarized
C22_Witness ==
    /\ call.committed
    /\ Len(session_summaries) > 0
    /\ CountUnsummarized(chats, call.session)
          = ACTIVE_WINDOW_SIZE - CHUNK_SIZE + 1

\* ------------------------------------------- a failed attempt and its retry
MaxRetryAppends == 2

\* a backlog; the bookkeeping also holds what the first failed attempt saw
\* (the database and the chunk it selected) and the appends made
InitRetry ==
    /\ \E b \in 0..MaxTurns :
          /\ chats = Backlog(b)
          /\ drain = [backlog |-> b, calls |-> 0, appended |-> 0,
                      failed |-> <<>>]
    /\ session_summaries = <<>>
    /\ call = NoCall
    /\ pc = IdleWorkers
    /\ local = NoLocals
    /\ users = SeededUsers
    /\ model_configs = {}

\* a check_and_compact call that fails at fault; the first one that had
\* selected a chunk is remembered
RetryFailedAttempt ==
    /\ drain.calls = 0
    /\ \E fault \in Faults \ {"none"} :
          LET r == CheckAndCompactCall(DB, DefaultSession, fault, "sA")
          IN  /\ CheckAndCompact(DefaultSession, fault, "sA")
              /\ drain' = IF drain.failed = <<>> /\ r.summarizer_called
                          THEN [drain EXCEPT !.failed =
                                   <<[before |-> DB,
                                      rows |-> RowsToCompact(chats, DefaultSession)]>>]
                          ELSE drain
    /\ UNCHANGED <<users, model_configs>>

\* turns arrive: a request of the server's (its inference may fail), or a
\* row of another session
RetryAppend ==
    /\ drain.calls = 0
    /\ drain.appended < MaxRetryAppends
    /\ \/ \E ok \in BOOLEAN : InferWithPromptEndpoint(ok, TRUE)
       \/ AppendOtherTurn("user")
    /\ drain' = [drain EXCEPT !.appended = @ + 1]
    /\ UNCHANGED <<users, model_configs>>

\* a check_and_compact call in which nothing fails; the first commit after
\* the remembered failure is counted
RetrySucceeds ==
    /\ drain.calls = 0
    /\ \E text \in SummaryTexts :
          LET r == CheckAndCompactCall(DB, DefaultSession, "none", text)
          IN  /\ CheckAndCompact(DefaultSession, "none", text)
              /\ drain' = IF drain.failed # <<>> /\ r.committed
                          THEN [drain EXCEPT !.calls = 1]
                          ELSE drain
    /\ UNCHANGED <<users, model_configs>>

NextRetry ==
    \/ RetryFailedAttempt
    \/ RetryAppend
    \/ RetrySucceeds

SpecRetry == InitRetry /\ [][NextRetry]_vars

\* ------------------------------------------------------------------ C23
\* C23: if a check_and_compact attempt fails after selecting its chunk and a
\* later attempt on the session succeeds, the later attempt covers the same
\* chunk as the failed one, also when turns were appended in between, and
\* the chapters and the summarized flags are those the first attempt would
\* have produced with the same summary text: the rows selected then are
\* exactly the ones marked, and the appended rows are unsummarized.
C23_SafeRetry ==
    drain.calls = 1 =>
        LET f == drain.failed[1]
            n == Len(f.before.chats)
            ch == session_summaries[Len(session_summaries)]
            would == CheckAndCompactCall(f.before, DefaultSession, "none",
                                         ch.content).db
        IN  /\ ch.start_chat_id = f.rows[1].id
            /\ ch.end_chat_id = f.rows[Len(f.rows)].id
            /\ session_summaries = would.summaries
            /\ SubSeq(chats, 1, n) = would.chats
            /\ \A i \in 1..n :
                  chats[i].is_summarized # f.before.chats[i].is_summarized
                      <=> i \in RowIds(f.rows)
            /\ \A i \in (n + 1)..Len(chats) : ~chats[i].is_summarized

\* an attempt failed, turns were appended, and the retry committed
C23_Witness ==
    /\ drain.calls = 1
    /\ Len(chats) > Len(drain.failed[1].before.chats)
    /\ call.committed

\* ------------------------------------------------------------------ C24
\* the text block the compaction check of the request in flight sends to the
\* summarizer in this step
SentTextBlock ==
    CheckAndCompactCall(DB, DefaultSession, call'.fault, "sA").text_block

\* the id of the k-th oldest unsummarized turn of the session
KthOldest(k) ==
    LET U == {i \in SessionIds(chats, DefaultSession) : ~chats[i].is_summarized}
    IN  CHOOSE i \in U : Cardinality({j \in U : j < i}) = k - 1

\* the compaction check of a request calls the summarizer in this step
SummarizerStep == NextStep = "compaction_check" /\ call'.summarizer_called

\* one line per turn of the chunk, oldest first, "User: " for role user and
\* "AI: " for any other role
LabelledInIdOrder(text) ==
    /\ Len(text) = CHUNK_SIZE
    /\ \A k \in 1..Len(text) :
          text[k] = <<IF chats[KthOldest(k)].role = "user" THEN "User" ELSE "AI",
                      ": ", chats[KthOldest(k)].content>>

\* C24 as stated: the text sent to the summarizer lists the chunk's turns in
\* ascending id order, one line per turn, labelled "User: " for role user and
\* "AI: " for every other role, and the lines alternate between User and AI
\* for every chunk selected from a transcript the turn pipeline produced,
\* also after a request whose inference failed.
C24_ChunkLinesAlternate ==
    [][SummarizerStep =>
          /\ LabelledInIdOrder(SentTextBlock)
          /\ \A k \in 1..(Len(SentTextBlock) - 1) :
                SentTextBlock[k][1] # SentTextBlock[k + 1][1]]_vars

\* C24, amended: the text sent to the summarizer lists the chunk's turns in
\* ascending id order, one line per turn, labelled "User: " for role user and
\* "AI: " for every other role.  Two AI lines never follow each other, and
\* two User lines follow each other exactly where the first is the turn of a
\* request whose inference failed: the lines alternate only for a chunk that
\* holds no such turn before its last line.
C24_ChunkLinesLabelled ==
    [][SummarizerStep =>
          /\ LabelledInIdOrder(SentTextBlock)
          /\ \A k \in 1..(Len(SentTextBlock) - 1) :
                /\ SentTextBlock[k][1] = SentTextBlock[k + 1][1]
                      => SentTextBlock[k][1] = "User"
                /\ SentTextBlock[k][1] = SentTextBlock[k + 1][1]
                      <=> /\ chats[KthOldest(k)].role = "user"
                          /\ chats[KthOldest(k) + 1].role = "user"]_vars

\* a chunk holding the turn of a failed request and the next request's user
\* turn has been summarized and committed by a /chat request
C24_Witness ==
    /\ call.op = "chat" /\ call.committed
    /\ Len(session_summaries) > 0
    /\ LET ch == session_summaries[Len(session_summaries)]
       IN  \E i \in ch.start_chat_id..(ch.end_chat_id - 1) :
              chats[i].role = "user" /\ chats[i + 1].role = "user"

\* ------------------------------------------------------------ GET /history
MaxTimedRequests == 2

\* get_history: the same query and reversal as /build_prompt; any exception
\* gives {"history": []}.  order: the order the query returns the rows in
GetHistory(ok, order) ==
    /\ call' = [NoCall EXCEPT !.op = "get_history", !.status = "200",
                    !.raised = ~ok,
                    !.result = IF ok
                               THEN [history |-> History(chats, order),
                                     history_ids |-> HistoryIds(chats, order)]
                               ELSE [history |-> <<>>, history_ids |-> <<>>]]
    /\ UNCHANGED <<chats, session_summaries, pc, local, drain, users,
                   model_configs>>

\* a request whose two INSERTs read the clock: the user turn in a later
\* second than the rows there are, the assistant turn within the same second
\* as the user turn (same) or later
TimedRequest(same) ==
    LET c1 == InsertTurnAt(chats, DefaultSession, "user", UserMsg, FALSE)
        c2 == InsertTurnAt(c1, DefaultSession, "assistant", Reply, same)
    IN  /\ chats' = c2
        /\ call' = [NoCall EXCEPT !.op = "infer_with_prompt", !.status = "200",
                        !.events = TraceOf("infer_with_prompt", TRUE)]
        /\ UNCHANGED <<session_summaries, pc, local, users, model_configs>>

DoTimedRequest ==
    /\ drain.calls < MaxTimedRequests
    /\ \E same \in BOOLEAN : TimedRequest(same)
    /\ drain' = [drain EXCEPT !.calls = @ + 1]
DoGetHistory ==
    \E ok \in BOOLEAN, order \in OrderByTimestampDesc(chats) :
        GetHistory(ok, order)
DoBuildPromptOnce ==
    \E order \in OrderByTimestampDesc(chats) :
        BuildPromptEndpoint(UserMsg, <<"qwen">>, "", TRUE, <<>>, <<>>, TRUE,
                            order)

\* a backlog written one row per second, then requests, and the history
\* read in between
NextHistory ==
    \/ DoTimedRequest
    \/ DoGetHistory
    \/ DoBuildPromptOnce

SpecHistory == InitBacklog /\ [][NextHistory]_vars

\* ------------------------------------------------------------------ C26
\* a request that read the recent history from the transcript
HistoryRead ==
    \/ PromptBuilt
    \/ call.op = "get_history" /\ ~call.raised

\* C26 as stated: the history list the server reads from the transcript for
\* prompt building and for /history is the most recent (up to HISTORY_LIMIT)
\* turns in ascending turn-id order, also when a user turn and its assistant
\* reply carry the same timestamp.
C26_RecentHistoryInIdOrder ==
    HistoryRead =>
        LET n == Len(chats)
            m == Min(n, HISTORY_LIMIT)
        IN  call.result.history_ids = [k \in 1..m |-> n - m + k]

\* the history was read while the newest user turn and its reply carried the
\* same timestamp, and the reply came out before the user turn
C26_Witness ==
    /\ HistoryRead
    /\ Len(chats) >= 2
    /\ chats[Len(chats)].timestamp = chats[Len(chats) - 1].timestamp
    /\ LET ids == call.result.history_ids
       IN  /\ ids[Len(ids)] = Len(chats) - 1
           /\ ids[Len(ids) - 1] = Len(chats)

\* ------------------------------------------------- /chat requests only
\* a session within the active window; the bookkeeping also counts the
\* requests whose inference failed
InitWindow ==
    /\ \E b \in 0..ACTIVE_WINDOW_SIZE :
          /\ chats = Backlog(b)
          /\ drain = [backlog |-> b, calls |-> 0, failures |-> 0]
    /\ session_summaries = <<>>
    /\ call = NoCall
    /\ pc = IdleWorkers
    /\ local = NoLocals
    /\ users = SeededUsers
    /\ model_configs = {}

BeginChat ==
    /\ Len(chats) + 2 <= MaxTurns
    /\ BeginRequest("chat")
    /\ drain' = [drain EXCEPT !.calls = @ + 1]
    /\ UNCHANGED <<users, model_configs>>

\* the inference of the /chat request in flight fails
ChatInferFails ==
    /\ drain.failures < MaxOddTurns
    /\ StepInfer(FALSE)
    /\ drain' = [drain EXCEPT !.failures = @ + 1]
    /\ UNCHANGED <<users, model_configs>>

\* the compaction check of the /chat request in flight, nothing failing
ChatCompactionSucceeds ==
    StepCompactionCheck("none", "sA") /\ UNCHANGED <<drain, users, model_configs>>

NextChatOnly ==
    \/ BeginChat
    \/ DoStepAppendUser
    \/ DoStepRetrieveContext
    \/ DoStepPreparePrompt
    \/ DoStepInfer
    \/ ChatInferFails
    \/ DoStepAppendAssistant
    \/ DoStepSidecar
    \/ ChatCompactionSucceeds
    \/ DoStepReturn

SpecChatOnly == InitWindow /\ [][NextChatOnly]_vars

\* ------------------------------------------------------------------ C27
\* no request is in flight
RequestEnded == call.status # "running"

\* C27 as stated: if every turn is appended through /chat requests executed
\* one at a time, starting from a session with at most ACTIVE_WINDOW_SIZE
\* unsummarized turns, and every compaction attempt succeeds, the
\* unsummarized count is at most ACTIVE_WINDOW_SIZE at the end of every
\* request and never exceeds ACTIVE_WINDOW_SIZE + 2 during a request.
C27_BacklogBounded ==
    /\ CountUnsummarized(chats, DefaultSession) <= ACTIVE_WINDOW_SIZE + 2
    /\ RequestEnded =>
          CountUnsummarized(chats, DefaultSession) <= ACTIVE_WINDOW_SIZE

\* C27, amended: under the same conditions and when, in addition, every
\* inference succeeds, the unsummarized count is at most ACTIVE_WINDOW_SIZE
\* at the end of every request and at most ACTIVE_WINDOW_SIZE + 2 during a
\* request.  A request whose inference fails appends its user turn and runs
\* no compaction check: with f such requests so far the bounds are
\* ACTIVE_WINDOW_SIZE + f and ACTIVE_WINDOW_SIZE + 2 + f.
C27_BacklogBoundedUpToFailures ==
    /\ CountUnsummarized(chats, DefaultSession)
          <= ACTIVE_WINDOW_SIZE + 2 + drain.failures
    /\ RequestEnded =>
          CountUnsummarized(chats, DefaultSession)
              <= ACTIVE_WINDOW_SIZE + drain.failures

\* no inference has failed and a request in flight has brought the count to
\* ACTIVE_WINDOW_SIZE + 2
C27_Witness ==
    /\ drain.failures = 0
    /\ call.status = "running"
    /\ CountUnsummarized(chats, DefaultSession) = ACTIVE_WINDOW_SIZE + 2

\* ------------------------------------------------------------------ C28
\* the inference of the request in flight fails in this step
InferenceFails == call.status = "running" /\ call'.status = "500"

\* C28: a /chat or /infer_with_prompt request whose main inference call
\* fails leaves its user turn committed as the last turn of the transcript
\* (the failure changes no row), appends no assistant turn and runs no
\* compaction check; the next request appends its user turn after it, so the
\* transcript can hold two consecutive user turns.
C28_FailedInferenceKeepsUserTurn ==
    [][/\ InferenceFails =>
            /\ chats' = chats
            /\ session_summaries' = session_summaries
            /\ \E k \in 1..Len(call'.events) : call'.events[k] = "append_user"
            /\ \A k \in 1..Len(call'.events) :
                  call'.events[k] \notin {"append_assistant", "compaction_check"}
            /\ Len(chats') > 0
            /\ chats'[Len(chats')].role = "user"
            /\ chats'[Len(chats')].session_id = DefaultSession
            /\ ~chats'[Len(chats')].is_summarized
       /\ NextStep = "append_user" =>
            /\ Len(chats') = Len(chats) + 1
            /\ SubSeq(chats', 1, Len(chats)) = chats
            /\ chats'[Len(chats')].role = "user"
      ]_vars

\* a request has committed its user turn right after the user turn of a
\* request whose inference failed
C28_Witness ==
    /\ NextStep \in {"retrieve_context", "infer"}
    /\ Len(call.events) = 1
    /\ Len(chats) >= 2
    /\ chats[Len(chats)].role = "user"
    /\ chats[Len(chats) - 1].role = "user"

\* --------------------------------------- two sessions in one id sequence
MaxWovenChunks == 1

\* how many rows a session writes before the other one writes again
WeaveWidths == {1, 2}

\* the sessions of na + nb rows written by the two sessions, k rows in turn,
\* starting with session first
RECURSIVE Weave(_, _, _, _)
Weave(na, nb, k, first) ==
    IF na = 0 /\ nb = 0 THEN <<>>
    ELSE IF first = DefaultSession
         THEN [i \in 1..Min(k, na) |-> DefaultSession]
                 \o Weave(na - Min(k, na), nb, k, OtherSession)
         ELSE [i \in 1..Min(k, nb) |-> OtherSession]
                 \o Weave(na, nb - Min(k, nb), k, DefaultSession)

\* the rows: in each session user and assistant alternate, one row a second
Interleaved(na, nb, k) ==
    LET w == Weave(na, nb, k, DefaultSession)
        nth(i) == Cardinality({x \in 1..i : w[x] = w[i]})
    IN  [i \in 1..Len(w) |->
            NewTurn(w[i], IF nth(i) % 2 = 1 THEN "user" ELSE "assistant",
                          IF nth(i) % 2 = 1 THEN UserMsg ELSE Reply, i)]

\* both sessions hold a backlog, their rows interleaved, no chapter yet
InitInterleaved ==
    /\ \E a, b \in 0..MaxWovenChunks, k \in WeaveWidths :
          chats = Interleaved(ChunksBacklog(a), ChunksBacklog(b), k)
    /\ session_summaries = <<>>
    /\ call = NoCall
    /\ pc = IdleWorkers
    /\ local = NoLocals
    /\ drain = NoDrain
    /\ users = SeededUsers
    /\ model_configs = {}

SpecInterleaved == InitInterleaved /\ [][DoCheckAndCompact]_vars

\* ------------------------------------------------------------------ C29
\* C29: check_and_compact(S) counts and selects only turns of session S
\* (it commits only when more than ACTIVE_WINDOW_SIZE turns of S are
\* unsummarized and marks the oldest CHUNK_SIZE of them), creates a chapter
\* only with session_id S, and leaves every turn and every chapter of any
\* other session unchanged, however the sessions' rows are interleaved in
\* the shared id sequence.
C29_CompactionSessionIsolation ==
    [][call'.op = "check_and_compact" =>
          LET s == call'.session
              U == {i \in SessionIds(chats, s) : ~chats[i].is_summarized}
              n == Len(session_summaries)
          IN  /\ Len(chats') = Len(chats)
              /\ \A i \in 1..Len(chats) :
                    chats[i].session_id # s => chats'[i] = chats[i]
              /\ Len(session_summaries') >= n
              /\ SubSeq(session_summaries', 1, n) = session_summaries
              /\ \A k \in (n + 1)..Len(session_summaries') :
                    session_summaries'[k].session_id = s
              /\ call'.committed => Cardinality(U) > ACTIVE_WINDOW_SIZE
              /\ {i \in 1..Len(chats) : chats'[i] # chats[i]}
                    = IF call'.committed THEN Oldest(U, CHUNK_SIZE) ELSE {}
      ]_vars

\* a compaction of one session has committed a chapter whose id range holds
\* rows of the other session, which has summarized rows and a chapter of its
\* own
C29_Witness ==
    /\ IsCompactCall(call) /\ call.committed
    /\ LET ch == session_summaries[Len(session_summaries)]
       IN  /\ ch.session_id = call.session
           /\ \E i \in ch.start_chat_id..ch.end_chat_id :
                 chats[i].session_id # call.session
           /\ \E k \in 1..Len(session_summaries) :
                 session_summaries[k].session_id # call.session
           /\ \E i \in 1..Len(chats) :
                 chats[i].session_id # call.session /\ ~chats[i].is_summarized

====
